---- MODULE Spec2Model ----
(***************************************************************************)
(* MonitorX SDK transport client (src/src/monitorx/sdk/client.py):         *)
(* the CircuitBreaker state machine, the exponential-backoff retry driver  *)
(* MonitorXClient._retry_with_backoff and the bounded offline buffer.      *)
(*                                                                         *)
(* The client runs on one asyncio event loop.  Several coroutines can be   *)
(* inside the client at once; they interleave only at their suspension     *)
(* points (the awaited operation and asyncio.sleep), so every action below *)
(* is the code that runs between two suspension points.                    *)
(* Time is counted in whole seconds.                                       *)
(*                                                                         *)
(* The receiver side is modelled next to it: the sliding-window            *)
(* RateLimiter, RateLimitMiddleware and TokenBucketRateLimiter             *)
(* (middleware/rate_limit.py), MetricsCollector                            *)
(* (services/metrics_collector.py) and AlertingService                     *)
(* (services/alerting.py).  Floats are exact fractions in the model.       *)
(***************************************************************************)
EXTENDS Integers, Sequences, FiniteSets, TLC

\* ---------------------------------------------------------------- bounds
NTasks == 1             \* coroutines that can be inside the client at once
MaxTime == 3            \* the clock stops advancing here
MaxCalls == 2           \* public calls started in one behaviour
MaxThreshold == 2       \* failure_threshold ranges over 1..MaxThreshold
MaxRecovery == 2        \* recovery_timeout ranges over 1..MaxRecovery
MaxRetries == 3         \* max_retries ranges over 0..MaxRetries
MaxBuffer == 2          \* buffer_size ranges over 1..MaxBuffer
MaxBatch == 2           \* metrics in one collect_inference_metrics_batch call
NClients == 2           \* client identities seen by the rate limiter
MaxLimit == 2           \* requests_per_window ranges over 1..MaxLimit
MaxWindow == 2          \* window_seconds ranges over 1..MaxWindow
MaxRequests == 4        \* requests the rate limiter sees in one behaviour
Resolution == 2         \* token counts and rates are multiples of 1/Resolution
MaxRate == 2            \* the refill rate ranges over 1..MaxRate (in 1/Resolution tokens a second)
MaxCapacity == 2        \* the bucket capacity ranges over 0..MaxCapacity
MaxValue == 12          \* _calculate_severity is called with values 0..MaxValue
MaxDivisor == 5         \* _calculate_severity is called with thresholds 0..MaxDivisor
MaxObserved == 2        \* the dimensions of a collected metric range over 0..MaxObserved
MaxConfigured == 1      \* the configured maxima range over 0..MaxConfigured
MaxCollects == 1        \* metrics the collector receives in one behaviour
NCallbacks == 2         \* metric callbacks, and alert callbacks, of the collector
NChannels == 2          \* channels of the alerting service
NHandlers == 2          \* custom handlers of the alerting service
MaxCooldown == 2        \* rate_limit_window ranges over 1..MaxCooldown
MaxRetention == 1       \* cleanup_rate_limit_history is called with 0..MaxRetention
MaxSends == 3           \* send_alert calls in one behaviour
MaxResolves == 2        \* resolve_alert calls in one behaviour

Tasks == 1..NTasks
\* the slots of the per-item submissions of a batch, and all coroutine slots
BatchSlots == (NTasks + 1)..(NTasks + MaxBatch)
Slots == Tasks \cup BatchSlots
None == -1              \* Python None for last_failure_time

VARIABLES
    now,                \* time.time()
    failure_threshold,  \* CircuitBreaker.failure_threshold
    recovery_timeout,   \* CircuitBreaker.recovery_timeout
    max_retries,        \* MonitorXClient.max_retries
    retry_backoff,      \* MonitorXClient.retry_backoff
    breaker_enabled,    \* MonitorXClient.circuit_breaker is not None
    circuit_breaker,    \* [state, failure_count, last_failure_time]
    buffer_size,        \* MonitorXClient.buffer_size (deque maxlen)
    metric_buffer,      \* MonitorXClient.metric_buffer
    buffer_enabled,     \* MonitorXClient.buffer_enabled
    task,               \* per coroutine: position and locals
    ncalls,             \* public calls started so far
    ev,                 \* the last thing that happened at the breaker
    reported,           \* how failed submissions were reported: {[cause, result]}
    streak,             \* failing calls completed since the last successful one
    nenqueued,          \* items appended to metric_buffer so far
    flush,              \* per coroutine slot: a running flush_buffer call
    batch,              \* a running collect_inference_metrics_batch call
    requests_per_window, \* RateLimiter.requests_per_window
    window_seconds,     \* RateLimiter.window_seconds
    requests,           \* RateLimiter.requests: per client, <<[ts, count], ...>>
    last_cleanup,       \* RateLimiter.last_cleanup
    answers,            \* per client, the answers it got: <<[at, allowed], ...>>
    decision,           \* the last answer of is_allowed: [client, allowed, at]
    nrequests,          \* requests the rate limiter has seen
    enabled,            \* RateLimitMiddleware.enabled
    response,           \* the last response of RateLimitMiddleware.dispatch
    rate,               \* TokenBucketRateLimiter.rate, in 1/Resolution tokens a second
    capacity,           \* TokenBucketRateLimiter.capacity
    buckets,            \* TokenBucketRateLimiter.buckets: per client, [known, tokens, last_update]
    bucket_answers,     \* per client, the answers of the token bucket: <<[at, allowed], ...>>
    model_configs,      \* MetricsCollector.model_configs: per entity, its thresholds or NoConfig
    metrics,            \* MetricsCollector.metrics
    drift_metrics,      \* MetricsCollector.drift_metrics
    alerts,             \* MetricsCollector.alerts
    collected,          \* the last collect_* call of the collector and what it did
    verdict,            \* the last two direct calls of _calculate_severity
    alert_status,       \* per stored alert (by position in alerts): id, resolved, resolved_at
    resolved_call,      \* the last resolve_alert call: its argument and its answer
    rate_limit_window,  \* AlertingService.rate_limit_window
    alert_history,      \* AlertingService.alert_history: per key, NoEntry or a time
    channels,           \* AlertingService.channels: per channel, its enabled flag
    sends,              \* the send_alert calls so far and what each did
    tested              \* the test_channels call in progress or just finished

vars == <<now, failure_threshold, recovery_timeout, max_retries, retry_backoff,
          breaker_enabled, circuit_breaker, buffer_size, metric_buffer,
          buffer_enabled, task, ncalls, ev, reported, streak, nenqueued, flush,
          batch, requests_per_window, window_seconds, requests, last_cleanup,
          answers, decision, nrequests, enabled, response, rate, capacity, buckets,
          bucket_answers, model_configs, metrics, drift_metrics, alerts, collected,
          verdict, alert_status, resolved_call, rate_limit_window, alert_history, channels, sends, tested>>

\* the constructor arguments of the SDK client
settings == <<failure_threshold, recovery_timeout, max_retries, retry_backoff,
              breaker_enabled, buffer_size>>

\* the server-side rate limiter (middleware/rate_limit.py)
limiter == <<requests_per_window, window_seconds, requests, last_cleanup,
             answers, decision, nrequests>>

\* RateLimitMiddleware around the sliding-window limiter
middleware == <<enabled, response>>

\* TokenBucketRateLimiter (middleware/rate_limit.py)
bucket == <<rate, capacity, buckets, bucket_answers>>

\* MetricsCollector (services/metrics_collector.py)
collector == <<model_configs, metrics, drift_metrics, alerts, collected, verdict,
               alert_status, resolved_call>>

\* AlertingService (services/alerting.py)
alerting == <<rate_limit_window, alert_history, channels, sends, tested>>

\* the receiver side apart from the sliding-window limiter
services == <<middleware, bucket, collector, alerting>>

\* what no operation of the SDK client changes
config == <<settings, limiter, services>>

\* the SDK client
sdk == <<settings, circuit_breaker, metric_buffer, buffer_enabled, task, ncalls,
         ev, reported, streak, nenqueued, flush, batch>>

\* ------------------------------------------------------- circuit breaker

\* CircuitBreaker.__init__: closed, no failures
NewBreaker == [state |-> "closed", failure_count |-> 0, last_failure_time |-> None]

\* record_failure whose increment is lost once the breaker is open (the
\* update a second caller would overwrite if the count were read before the
\* await and written after it)
record_failure_lost(cb, t) ==
    LET c == IF cb.state = "open" THEN cb.failure_count ELSE cb.failure_count + 1
    IN  [state |-> IF c >= failure_threshold THEN "open" ELSE cb.state,
         failure_count |-> c,
         last_failure_time |-> t]

\* record_failure that does not stamp last_failure_time
record_failure_unstamped(cb, t) ==
    LET c == cb.failure_count + 1
    IN  [state |-> IF c >= failure_threshold THEN "open" ELSE cb.state,
         failure_count |-> c,
         last_failure_time |-> cb.last_failure_time]

\* record_failure with the threshold test off by one (> for >=)
record_failure_gt(cb, t) ==
    LET c == cb.failure_count + 1
    IN  [state |-> IF c > failure_threshold THEN "open" ELSE cb.state,
         failure_count |-> c,
         last_failure_time |-> t]

\* CircuitBreaker.record_failure
record_failure(cb, t) ==
    LET c == cb.failure_count + 1
    IN  [state |-> IF c >= failure_threshold THEN "open" ELSE cb.state,
         failure_count |-> c,
         last_failure_time |-> t]

\* reset that closes the breaker but forgets failure_count
reset_keeps_count(cb) == [cb EXCEPT !.state = "closed", !.last_failure_time = None]

\* CircuitBreaker.reset
reset(cb) == [state |-> "closed", failure_count |-> 0, last_failure_time |-> None]

\* the entry test without its else branch: an open breaker lets calls through
IsRejected_never(cb, t) == FALSE

\* call / call_async, the test at the top: the breaker is open and the
\* recovery timeout has not elapsed, so the call raises "Circuit breaker is OPEN"
IsRejected(cb, t) ==
    /\ cb.state = "open"
    /\ ~(t - cb.last_failure_time >= recovery_timeout)

\* call / call_async, the breaker after the entry test of an admitted call
Admit(cb, t) ==
    IF cb.state = "open" /\ t - cb.last_failure_time >= recovery_timeout
    THEN [cb EXCEPT !.state = "half_open"]
    ELSE cb

\* the success branch resetting the breaker in every state
OnReturn_always(cb) == reset(cb)

\* call / call_async, after the wrapped function returned
OnReturn(cb) == IF cb.state = "half_open" THEN reset(cb) ELSE cb

\* ----------------------------------------------------------- retry driver

RECURSIVE Pow2(_)
Pow2(k) == IF k = 0 THEN 1 ELSE 2 * Pow2(k - 1)

\* the backoff computed from the 1-based attempt number
backoff_time_late(attempt) == retry_backoff * Pow2(attempt + 1)

\* _retry_with_backoff: backoff_time = self.retry_backoff * (2 ** attempt)
backoff_time(attempt) == retry_backoff * Pow2(attempt)

\* a deque that refuses a new item when it is full
deque_append_dropnew(buf, x) ==
    IF Len(buf) >= buffer_size THEN buf ELSE Append(buf, x)

\* deque(maxlen=buffer_size).append; a buffered item is {"type": kind, "data": ...}
deque_append(buf, x) ==
    IF Len(buf) >= buffer_size THEN Append(Tail(buf), x) ELSE Append(buf, x)

\* what a caller says about an inference metric, as far as the client looks
\* at it: whether it supplies a request_id and whether it supplies resource
\* usage (model_id, model_type and latency are always given)
Metrics == [request_id : BOOLEAN, resource_usage : BOOLEAN]

PlainMetric == [request_id |-> FALSE, resource_usage |-> FALSE]

\* asdict(metric) of the InferenceMetric built from m: request_id is always
\* set (generated when the caller gave none) and asdict turns the nested
\* ResourceUsage dataclass into a dict
asdict(m) ==
    [request_id |-> TRUE,
     resource_usage |-> IF m.resource_usage THEN "dict" ELSE "None"]

\* a batch entry as the caller wrote it: request_id only when supplied,
\* resource usage as the ResourceUsage object the caller passed
metric_data(m) ==
    [request_id |-> m.request_id,
     resource_usage |-> IF m.resource_usage THEN "ResourceUsage" ELSE "None"]

\* the buffer entry {"type": kind, "data": data}; id is the serial number of
\* the append, via the code path that appended it
Item(kind, data, via) ==
    [type |-> kind, data |-> data, id |-> nenqueued + 1, via |-> via]

\* a coroutine slot.  pc, kind, metric, attempt, wake, last_exception and
\* result are the coroutine's position and locals; the other fields record
\* its history: atts the outcome of each attempt so far ("True"/"False"
\* returned, "raise", or "rejected" by the breaker), slept the backoff sleeps
\* requested, surfaced the exception _retry_with_backoff raised,
\* entry_buffering / final_buffering the buffering flag when the public call
\* was entered / when it ended, slept_open whether a backoff sleep was started
\* with the breaker open after the breaker had admitted the first attempt,
\* enqueued whether the call appended its metric to the buffer
IdleTask ==
    [pc |-> "idle", kind |-> "none", metric |-> PlainMetric, attempt |-> 0, wake |-> 0,
     last_exception |-> "None", surfaced |-> "none", result |-> "none",
     atts |-> <<>>, slept |-> <<>>,
     entry_buffering |-> FALSE, final_buffering |-> FALSE,
     slept_open |-> FALSE, enqueued |-> FALSE]

\* _retry_with_backoff fell out of its loop: raise last_exception (raising
\* None is a TypeError); _collect_*_metric_request_with_retry catches it,
\* appends to the buffer when buffering is enabled and returns False
Exhausted(tk) ==
    [tk EXCEPT !.pc = "done",
               !.surfaced = IF tk.last_exception = "None" THEN "TypeError"
                            ELSE tk.last_exception,
               !.enqueued = buffer_enabled,
               !.final_buffering = buffer_enabled,
               !.result = "False"]

\* the except branch keeping the first exception instead of the last
AfterException_first(tk, e, cb) ==
    LET tk1 == [tk EXCEPT !.last_exception = IF @ = "None" THEN e ELSE @,
                          !.atts = Append(@, IF e = "CircuitOpen" THEN "rejected" ELSE "raise")]
    IN  IF tk.attempt < max_retries - 1
        THEN [tk1 EXCEPT !.pc = "sleeping",
                         !.wake = now + backoff_time(tk.attempt),
                         !.slept = Append(@, backoff_time(tk.attempt)),
                         !.slept_open = @ \/ (/\ breaker_enabled
                                               /\ cb.state = "open"
                                               /\ tk1.atts[1] # "rejected")]
        ELSE Exhausted(tk1)

\* _retry_with_backoff, the except branch for the exception e of attempt
\* tk.attempt, raised while the breaker is cb
AfterException(tk, e, cb) ==
    LET tk1 == [tk EXCEPT !.last_exception = e,
                          !.atts = Append(@, IF e = "CircuitOpen" THEN "rejected" ELSE "raise")]
    IN  IF tk.attempt < max_retries - 1
        THEN [tk1 EXCEPT !.pc = "sleeping",
                         !.wake = now + backoff_time(tk.attempt),
                         !.slept = Append(@, backoff_time(tk.attempt)),
                         !.slept_open = @ \/ (/\ breaker_enabled
                                               /\ cb.state = "open"
                                               /\ tk1.atts[1] # "rejected")]
        ELSE Exhausted(tk1)

\* the buffer after task record tk2 was produced from a running task
BufferAfter(tk2, kind) ==
    IF tk2.pc = "done" /\ tk2.enqueued
    THEN deque_append(metric_buffer, Item(kind, asdict(tk2.metric), "fallback"))
    ELSE metric_buffer

\* the number of appends after task record tk2 was produced
EnqueuedAfter(tk2) ==
    IF tk2.pc = "done" /\ tk2.enqueued THEN nenqueued + 1 ELSE nenqueued

\* what made the finished submission tk fail: the breaker rejected its last
\* attempt, or the operation failed (raised, or returned False)
Cause(tk) ==
    IF tk.surfaced = "CircuitOpen" THEN "breaker_open"
    ELSE IF tk.surfaced = "OpError" \/ (tk.result = "False" /\ tk.surfaced = "none")
         THEN "transport"
    ELSE "none"

\* the reports seen by callers once the coroutine has become tk2
ReportedAfter(tk2) ==
    IF tk2.pc = "done" /\ Cause(tk2) # "none"
    THEN reported \cup {[cause |-> Cause(tk2), result |-> tk2.result]}
    ELSE reported

\* observation of the last step at the breaker: how the call fared at the
\* entry test, how the wrapped function ended, and mid, the breaker state
\* after the entry test and before the outcome of the function was handled
\* (value: what the function returned, when it returned)
Event(mid, entry, exit, value) ==
    [mid |-> mid.state, entry |-> entry, exit |-> exit, value |-> value]

\* the streak of failing calls after a call ended with exit, leaving breaker cb
StreakAfter(exit, cb) ==
    IF exit = "raised" THEN [streak EXCEPT !.len = @ + 1]
    ELSE [len |-> 0, base |-> cb.failure_count, start |-> cb.state]

\* one iteration of the for loop of _retry_with_backoff up to its first
\* suspension point: the entry test of call_async, then either the rejection
\* (handled by the except branch) or the awaited operation is started
BeginAttempt(t, tk) ==
    IF max_retries = 0
    THEN /\ task' = [task EXCEPT ![t] = Exhausted(tk)]
         /\ metric_buffer' = BufferAfter(Exhausted(tk), tk.kind)
         /\ nenqueued' = EnqueuedAfter(Exhausted(tk))
         /\ UNCHANGED <<circuit_breaker, ev, reported, streak>>
    ELSE IF breaker_enabled /\ IsRejected(circuit_breaker, now)
    THEN LET tk2 == AfterException(tk, "CircuitOpen", circuit_breaker)
         IN  /\ task' = [task EXCEPT ![t] = tk2]
             /\ metric_buffer' = BufferAfter(tk2, tk.kind)
             /\ nenqueued' = EnqueuedAfter(tk2)
             /\ reported' = ReportedAfter(tk2)
             /\ ev' = Event(circuit_breaker, "rejected", "none", "none")
             /\ UNCHANGED <<circuit_breaker, streak>>
    ELSE /\ task' = [task EXCEPT ![t] = [tk EXCEPT !.pc = "calling"]]
         /\ circuit_breaker' = IF breaker_enabled THEN Admit(circuit_breaker, now)
                               ELSE circuit_breaker
         /\ ev' = IF breaker_enabled
                  THEN Event(Admit(circuit_breaker, now), "admitted", "none", "none")
                  ELSE ev
         /\ UNCHANGED <<metric_buffer, nenqueued, reported, streak>>

\* ---------------------------------------------------------------- actions

NoEvent == [mid |-> "closed", entry |-> "none", exit |-> "none", value |-> "none"]

\* no flush_buffer call is running in the slot
NoFlush ==
    [pc |-> "idle", original_buffer_state |-> FALSE, flushed |-> 0, failed |-> 0,
     item |-> 0, log |-> <<>>, posted_open |-> FALSE]

\* no collect_inference_metrics_batch call is running
NoBatch == [pc |-> "idle", n |-> 0, started |-> 0, success |-> 0, failed |-> 0]

Clients == 1..NClients

NoDecision == [client |-> 0, allowed |-> TRUE, at |-> 0]

\* RateLimiter.__init__ with limit L and window W, constructed at time 0
NewLimiter(L, W) ==
    /\ requests_per_window = L
    /\ window_seconds = W
    /\ requests = [c \in Clients |-> <<>>]
    /\ last_cleanup = 0
    /\ answers = [c \in Clients |-> <<>>]
    /\ decision = NoDecision
    /\ nrequests = 0

\* no request has passed the middleware
NoResponse ==
    [client |-> 0, path |-> "none", status |-> 0, retry_after |-> 0, reset |-> 0,
     at |-> 0]

\* RateLimitMiddleware.__init__ with RATE_LIMIT_ENABLED = en
NewMiddleware(en) ==
    /\ enabled = en
    /\ response = NoResponse

\* a client the token bucket has not seen
NoBucket == [known |-> FALSE, tokens |-> 0, last_update |-> 0]

\* TokenBucketRateLimiter.__init__ with rate R and capacity C
NewBucket(R, C) ==
    /\ rate = R
    /\ capacity = C
    /\ buckets = [c \in Clients |-> NoBucket]
    /\ bucket_answers = [c \in Clients |-> <<>>]

\* the entities that send metrics; only the first ones are ever registered
Entities == {"m1", "m2"}
Registrable == {"m1"}

\* the dimensions _check_thresholds looks at, in its order
Dims == <<"latency", "error_rate", "gpu_memory", "cpu_usage">>
DimSet == {Dims[i] : i \in 1..Len(Dims)}

\* an entity without a registered ModelConfig
NoConfig == [registered |-> FALSE, thresholds |-> [d \in DimSet |-> 0]]

\* no collect_* call yet
NoCollect ==
    [kind |-> "none", serial |-> 0, model_id |-> "none", metric |-> <<>>,
     raised |-> FALSE, alerts |-> <<>>, metric_callbacks |-> {},
     callback_errors |-> {}, alert_callbacks |-> 0]

NoVerdict == [value |-> 0, threshold |-> 0, severity |-> "none"]

\* no resolve_alert call yet
NoResolve == [alert_id |-> 0, answer |-> "none", at |-> 0, calls |-> 0]

\* MetricsCollector.__init__
NewCollector ==
    /\ model_configs = [e \in Entities |-> NoConfig]
    /\ metrics = <<>>
    /\ drift_metrics = <<>>
    /\ alerts = <<>>
    /\ collected = NoCollect
    /\ verdict = [last |-> NoVerdict, previous |-> NoVerdict]
    /\ alert_status = <<>>
    /\ resolved_call = NoResolve

Channels == 1..NChannels
Handlers == 1..NHandlers

\* the alerts handed to send_alert: equal but for their severity
AlertsToSend ==
    {[model_id |-> "m1", alert_type |-> "latency", severity |-> sv] :
        sv \in {"high", "critical"}}

\* send_alert: rate_limit_key = f"{alert.model_id}:{alert.alert_type}:{alert.severity}"
\* (alert_type and severity are words without a colon, so the string
\* determines the three parts)
rate_limit_key(alert) == <<alert.model_id, alert.alert_type, alert.severity>>

Keys == {rate_limit_key(a) : a \in AlertsToSend}

\* no test_channels call yet: results is the dictionary it returns, delivery
\* how the delivery it attempted for a channel ended, channel the one whose
\* delivery it awaits
NoTest ==
    [pc |-> "idle", channel |-> 0,
     results |-> [ch \in Channels |-> "none"],
     delivery |-> [ch \in Channels |-> "none"]]

\* AlertingService.__init__ with rate_limit_window set to W, followed by
\* add_channel for the channels (en: their enabled flags) and
\* add_custom_handler for the handlers
NewAlerting(W, en) ==
    /\ rate_limit_window = W
    /\ alert_history = [k \in Keys |-> None]
    /\ channels = en
    /\ sends = <<>>
    /\ tested = NoTest

\* the receiver side before any request
IdleServices ==
    /\ NewMiddleware(FALSE)
    /\ NewBucket(1, 1)
    /\ NewCollector
    /\ NewAlerting(1, [ch \in Channels |-> TRUE])

\* CircuitBreaker.__init__ and MonitorXClient.__init__
Init ==
    /\ NewLimiter(1, 1)
    /\ IdleServices
    /\ now = 0
    /\ failure_threshold \in 1..MaxThreshold
    /\ recovery_timeout \in 1..MaxRecovery
    /\ max_retries \in 0..MaxRetries
    /\ retry_backoff = 1
    /\ breaker_enabled \in BOOLEAN
    /\ circuit_breaker = NewBreaker
    /\ buffer_size \in 1..MaxBuffer
    /\ metric_buffer = <<>>
    /\ buffer_enabled = FALSE
    /\ task = [t \in Slots |-> IdleTask]
    /\ ncalls = 0
    /\ ev = NoEvent
    /\ reported = {}
    /\ streak = [len |-> 0, base |-> 0, start |-> "closed"]
    /\ nenqueued = 0
    /\ flush = [t \in Tasks |-> NoFlush]
    /\ batch = NoBatch

\* a new coroutine takes the first free slot
FreeSlot(t) ==
    /\ task[t].pc = "idle"
    /\ \A u \in Tasks : u < t => task[u].pc # "idle"

\* MonitorXClient.enable_buffering
enable_buffering ==
    /\ ~buffer_enabled
    /\ buffer_enabled' = TRUE
    /\ UNCHANGED <<now, config, circuit_breaker, metric_buffer, task, ncalls, ev,
                   reported, streak, nenqueued, flush, batch>>

\* MonitorXClient.disable_buffering
disable_buffering ==
    /\ buffer_enabled
    /\ buffer_enabled' = FALSE
    /\ UNCHANGED <<now, config, circuit_breaker, metric_buffer, task, ncalls, ev,
                   reported, streak, nenqueued, flush, batch>>

\* MonitorXClient.collect_inference_metric up to its first suspension point
collect_inference_metric(t, m) ==
    /\ FreeSlot(t)
    /\ ncalls < MaxCalls
    /\ ncalls' = ncalls + 1
    /\ LET metric == [m EXCEPT !.request_id = TRUE]
           tk == [IdleTask EXCEPT !.kind = "inference", !.metric = metric,
                                  !.entry_buffering = buffer_enabled]
       IN  IF buffer_enabled
           THEN /\ metric_buffer' =
                       deque_append(metric_buffer, Item("inference", asdict(metric), "single"))
                /\ nenqueued' = nenqueued + 1
                /\ task' = [task EXCEPT ![t] =
                               [tk EXCEPT !.pc = "done", !.result = "True", !.enqueued = TRUE]]
                /\ UNCHANGED <<circuit_breaker, ev, reported, streak>>
           ELSE BeginAttempt(t, tk)
    /\ UNCHANGED <<now, config, buffer_enabled, flush, batch>>

\* MonitorXClient.collect_drift_metric up to its first suspension point
collect_drift_metric(t) ==
    /\ FreeSlot(t)
    /\ ncalls < MaxCalls
    /\ ncalls' = ncalls + 1
    /\ BeginAttempt(t, [IdleTask EXCEPT !.kind = "drift",
                                        !.entry_buffering = buffer_enabled])
    /\ UNCHANGED <<now, config, buffer_enabled, flush, batch>>

\* _collect_inference_metric_request / _collect_drift_metric_request: the
\* value the request function returns for the outcome of its HTTP exchange
\* ("2xx", or "error" for a network error, a timeout or raise_for_status)
request_result(http) == IF http = "2xx" THEN "True" ELSE "False"

\* the awaited request function of task t finishes; call_async, the retry
\* driver and the *_with_retry wrapper pass its return value on
RequestCompletes(t, http) ==
    /\ task[t].pc = "calling"
    /\ LET r == request_result(http)
           cb == IF breaker_enabled THEN OnReturn(circuit_breaker) ELSE circuit_breaker
           tk2 == [task[t] EXCEPT !.pc = "done", !.result = r, !.atts = Append(@, r),
                                  !.final_buffering = (r = "False" /\ buffer_enabled)]
       IN  /\ circuit_breaker' = cb
           /\ task' = [task EXCEPT ![t] = tk2]
           /\ reported' = ReportedAfter(tk2)
           /\ ev' = IF breaker_enabled
                    THEN Event(circuit_breaker, "none", "returned", r)
                    ELSE ev
           /\ streak' = IF breaker_enabled THEN StreakAfter("returned", cb) ELSE streak
    /\ UNCHANGED <<now, config, metric_buffer, buffer_enabled, ncalls, nenqueued, flush, batch>>

\* the awaited operation of task t raises (an operation that lets its error
\* out, as the stand-ins for the request function in tests/test_sdk_enhanced.py
\* do): call_async records the failure, the retry driver handles the exception
OperationRaises(t) ==
    /\ task[t].pc = "calling"
    /\ LET cb == IF breaker_enabled THEN record_failure(circuit_breaker, now)
                 ELSE circuit_breaker
           tk2 == AfterException(task[t], "OpError", cb)
       IN  /\ circuit_breaker' = cb
           /\ task' = [task EXCEPT ![t] = tk2]
           /\ metric_buffer' = BufferAfter(tk2, task[t].kind)
           /\ nenqueued' = EnqueuedAfter(tk2)
           /\ reported' = ReportedAfter(tk2)
           /\ ev' = IF breaker_enabled
                    THEN Event(circuit_breaker, "none", "raised", "none")
                    ELSE ev
           /\ streak' = IF breaker_enabled THEN StreakAfter("raised", cb) ELSE streak
    /\ UNCHANGED <<now, config, buffer_enabled, ncalls, flush, batch>>

\* asyncio.sleep(backoff_time) of task t is over: the next loop iteration
WakeUp(t) ==
    /\ task[t].pc = "sleeping"
    /\ now >= task[t].wake
    /\ BeginAttempt(t, [task[t] EXCEPT !.attempt = @ + 1])
    /\ UNCHANGED <<now, config, buffer_enabled, ncalls, flush, batch>>

\* the caller of task t takes the result; the coroutine is gone
Return(t) ==
    /\ task[t].pc = "done"
    /\ task' = [task EXCEPT ![t] = IdleTask]
    /\ UNCHANGED <<now, config, circuit_breaker, metric_buffer, buffer_enabled,
                   ncalls, ev, reported, streak, nenqueued, flush, batch>>

\* CircuitBreaker.call: the synchronous wrapper, run in one piece around a
\* function that returns (ok) or raises
call(ok) ==
    /\ breaker_enabled
    /\ ncalls < MaxCalls
    /\ ncalls' = ncalls + 1
    /\ IF IsRejected(circuit_breaker, now)
       THEN /\ ev' = Event(circuit_breaker, "rejected", "none", "none")
            /\ UNCHANGED <<circuit_breaker, streak>>
       ELSE LET mid == Admit(circuit_breaker, now)
                cb == IF ok THEN OnReturn(mid) ELSE record_failure(mid, now)
                exit == IF ok THEN "returned" ELSE "raised"
            IN  /\ circuit_breaker' = cb
                /\ ev' = Event(mid, "admitted", exit, IF ok THEN "True" ELSE "none")
                /\ streak' = StreakAfter(exit, cb)
    /\ UNCHANGED <<now, config, metric_buffer, buffer_enabled, task, reported,
                   nenqueued, flush, batch>>

\* somebody is waiting for the clock: a coroutine in a backoff sleep, or an
\* open breaker whose recovery timeout has not elapsed
TimeMatters ==
    \/ \E t \in Slots : task[t].pc = "sleeping" /\ now < task[t].wake
    \/ breaker_enabled /\ IsRejected(circuit_breaker, now)

\* time passes (observed only while somebody waits for it: every test of
\* the clock in the code compares it with a wake-up time or with
\* last_failure_time + recovery_timeout)
Tick ==
    /\ now < MaxTime
    /\ TimeMatters
    /\ now' = now + 1
    /\ UNCHANGED <<config, circuit_breaker, metric_buffer, buffer_enabled, task,
                   ncalls, ev, reported, streak, nenqueued, flush, batch>>

Next ==
    \/ enable_buffering
    \/ disable_buffering
    \/ \E t \in Tasks : collect_inference_metric(t, PlainMetric)
    \/ \E t \in Tasks : collect_drift_metric(t)
    \/ \E t \in Tasks, http \in {"2xx", "error"} : RequestCompletes(t, http)
    \/ \E t \in Tasks : OperationRaises(t)
    \/ \E t \in Tasks : WakeUp(t)
    \/ \E t \in Tasks : Return(t)
    \/ \E ok \in BOOLEAN : call(ok)
    \/ Tick

Spec == Init /\ [][Next]_vars

\* the breaker and the retry driver with buffering left as the constructor
\* sets it (buffer_enabled = False)
NextResilience ==
    \/ \E t \in Tasks : collect_inference_metric(t, PlainMetric)
    \/ \E t \in Tasks : collect_drift_metric(t)
    \/ \E t \in Tasks, http \in {"2xx", "error"} : RequestCompletes(t, http)
    \/ \E t \in Tasks : OperationRaises(t)
    \/ \E t \in Tasks : WakeUp(t)
    \/ \E t \in Tasks : Return(t)
    \/ \E ok \in BOOLEAN : call(ok)
    \/ Tick

\* (the buffer is never appended to, so its capacity is left at 1)
InitResilience == Init /\ buffer_size = 1

SpecResilience == InitResilience /\ [][NextResilience]_vars

\* ------------------------------------------- collect_inference_metrics_batch

\* the metric lists a caller can pass, with metrics from S
Batches(S) == UNION {[1..n -> S] : n \in 0..MaxBatch}

\* the slot of the submission of the i-th metric of the batch
Child(i) == NTasks + i

\* for metric_data in metrics: self.metric_buffer.append({"type":
\* "inference", "data": metric_data}), from the k+1-th metric on
RECURSIVE BufferBatch(_, _, _)
BufferBatch(buf, ms, k) ==
    IF k >= Len(ms) THEN buf
    ELSE BufferBatch(
             deque_append(buf, [Item("inference", metric_data(ms[k + 1]), "batch")
                                   EXCEPT !.id = nenqueued + k + 1]),
             ms, k + 1)

\* a join that is over as soon as one submission has completed
Joined_first(n) == \E i \in 1..n : task[Child(i)].pc = "done"

\* results = await asyncio.gather(*tasks, return_exceptions=True) is over:
\* every submission has completed
Joined(n) == \A i \in 1..n : task[Child(i)].pc = "done"

\* the counting loop over the results, from the k+1-th result on: an
\* exception and a false result are failures, a true result is a success
RECURSIVE Count(_, _, _)
Count(results, k, c) ==
    IF k >= Len(results) THEN c
    ELSE LET result == results[k + 1]
         IN  IF result = "raised" THEN Count(results, k + 1, [c EXCEPT !.failed = @ + 1])
             ELSE IF result = "True" THEN Count(results, k + 1, [c EXCEPT !.success = @ + 1])
             ELSE Count(results, k + 1, [c EXCEPT !.failed = @ + 1])

\* MonitorXClient.collect_inference_metrics_batch(ms) up to its first
\* suspension point, the gather over the per-item submissions it created
collect_inference_metrics_batch(ms) ==
    /\ batch.pc = "idle"
    /\ ncalls < MaxCalls
    /\ ncalls' = ncalls + 1
    /\ IF ms = <<>>
       THEN /\ batch' = [NoBatch EXCEPT !.pc = "done"]
            /\ UNCHANGED <<metric_buffer, nenqueued, task>>
       ELSE IF buffer_enabled
       THEN /\ metric_buffer' = BufferBatch(metric_buffer, ms, 0)
            /\ nenqueued' = nenqueued + Len(ms)
            /\ batch' = [NoBatch EXCEPT !.pc = "done", !.n = Len(ms), !.success = Len(ms)]
            /\ UNCHANGED task
       ELSE /\ task' = [t \in Slots |->
                          IF t \in BatchSlots /\ t - NTasks <= Len(ms)
                          THEN [IdleTask EXCEPT
                                   !.pc = "pending", !.kind = "inference",
                                   !.metric = [ms[t - NTasks] EXCEPT !.request_id = TRUE]]
                          ELSE task[t]]
            /\ batch' = [NoBatch EXCEPT !.pc = "gathering", !.n = Len(ms),
                                        !.started = Len(ms)]
            /\ UNCHANGED <<metric_buffer, nenqueued>>
    /\ UNCHANGED <<now, config, circuit_breaker, buffer_enabled, ev, reported, streak,
                   flush>>

\* the event loop starts the submission in slot t, created by the batch call
\* (in the order in which gather scheduled them)
ChildStart(t) ==
    /\ task[t].pc = "pending"
    /\ \A u \in BatchSlots : u < t => task[u].pc # "pending"
    /\ BeginAttempt(t, task[t])
    /\ UNCHANGED <<now, config, buffer_enabled, ncalls, flush, batch>>

\* gather is over: the batch call counts the results and returns
BatchGathered ==
    /\ batch.pc = "gathering"
    /\ Joined(batch.n)
    /\ LET results == [i \in 1..batch.n |-> task[Child(i)].result]
           c == Count(results, 0, [success |-> 0, failed |-> 0])
       IN  batch' = [batch EXCEPT !.pc = "done", !.success = c.success,
                                  !.failed = c.failed]
    /\ UNCHANGED <<now, config, circuit_breaker, metric_buffer, buffer_enabled, task,
                   ncalls, ev, reported, streak, nenqueued, flush>>

\* the caller of the batch takes the result; its coroutines are gone
BatchReturn ==
    /\ batch.pc = "done"
    /\ batch' = NoBatch
    /\ task' = [t \in Slots |-> IF t \in BatchSlots THEN IdleTask ELSE task[t]]
    /\ UNCHANGED <<now, config, circuit_breaker, metric_buffer, buffer_enabled,
                   ncalls, ev, reported, streak, nenqueued, flush>>

\* the batch call with the retry driver and the breaker under it (the
\* buffering switch is operated between batch calls)
NextBatch ==
    \/ batch.pc = "idle" /\ enable_buffering
    \/ batch.pc = "idle" /\ disable_buffering
    \/ \E ms \in Batches({PlainMetric}) : collect_inference_metrics_batch(ms)
    \/ \E t \in BatchSlots : ChildStart(t)
    \/ \E t \in BatchSlots, http \in {"2xx", "error"} : RequestCompletes(t, http)
    \/ \E t \in BatchSlots : OperationRaises(t)
    \/ \E t \in BatchSlots : WakeUp(t)
    \/ BatchGathered
    \/ BatchReturn
    \/ Tick

\* a client with or without a breaker that opens at the first failure, with
\* zero, one or two attempts per submission and a buffer for one item
InitBatch ==
    /\ Init
    /\ failure_threshold = 1
    /\ recovery_timeout = 1
    /\ max_retries \in {0, 1, 2}
    /\ buffer_size = 1

SpecBatch == InitBatch /\ [][NextBatch]_vars

\* one breaker shared by the synchronous wrapper and by the submissions of
\* a batch, which are inside call_async at the same time
NextShared ==
    \/ \E ms \in Batches({PlainMetric}) : collect_inference_metrics_batch(ms)
    \/ \E t \in BatchSlots : ChildStart(t)
    \/ \E t \in BatchSlots, http \in {"2xx", "error"} : RequestCompletes(t, http)
    \/ \E t \in BatchSlots : OperationRaises(t)
    \/ BatchGathered
    \/ BatchReturn
    \/ \E ok \in BOOLEAN : call(ok)
    \/ Tick

\* a client with its breaker and one attempt per submission
InitShared ==
    /\ Init
    /\ breaker_enabled
    /\ recovery_timeout = 1
    /\ max_retries = 1
    /\ buffer_size = 1

SpecShared == InitShared /\ [][NextShared]_vars

\* ------------------------------------------------------------ flush_buffer

\* deque.pop(): the newest item instead of the oldest
popleft_newest(buf) ==
    [item |-> buf[Len(buf)], rest |-> SubSeq(buf, 1, Len(buf) - 1)]

\* metric_data = self.metric_buffer.popleft()
popleft(buf) == [item |-> Head(buf), rest |-> Tail(buf)]

\* a loop that gives up at once
LoopAgain_never(buf) == FALSE

\* while self.metric_buffer:
LoopAgain(buf) == buf # <<>>

\* InferenceMetric(**metric_data["data"]) / DriftMetric(**metric_data["data"]):
\* a TypeError when a required field is missing
Rebuild(x) == IF x.data.request_id THEN "ok" ELSE "TypeError"

\* _collect_inference_metric_request up to client.post: building the
\* payload reads metric.resource_usage.gpu_memory, an AttributeError when
\* resource_usage is a dict; the request function catches it and returns False
Payload(x) ==
    IF x.type = "inference" /\ x.data.resource_usage = "dict"
    THEN "AttributeError" ELSE "ok"

\* what flush_buffer did with the popped item x: how the delivery ended and
\* how often the request function was called for it
Entry(x, outcome) ==
    [id |-> x.id, via |-> x.via, outcome |-> outcome,
     attempts |-> IF outcome = "TypeError" THEN 0 ELSE 1]

\* flush_buffer, the while loop from its test up to the next suspension
\* point: items whose rebuilding raises are counted failed, items whose
\* request function returns without sending are counted flushed, and the loop
\* stops at the first item whose request is posted, or when the buffer is
\* empty; f holds flushed, failed and the log so far
RECURSIVE Drain(_, _)
Drain(buf, f) ==
    IF ~LoopAgain(buf)
    THEN [pc |-> "done", buf |-> buf, flushed |-> f.flushed, failed |-> f.failed,
          log |-> f.log, item |-> 0]
    ELSE LET p == popleft(buf)
             x == p.item
         IN  IF Rebuild(x) = "TypeError"
             THEN Drain(p.rest, [f EXCEPT !.failed = @ + 1,
                                          !.log = Append(@, Entry(x, "TypeError"))])
             ELSE IF Payload(x) = "AttributeError"
             THEN Drain(p.rest, [f EXCEPT !.flushed = @ + 1,
                                          !.log = Append(@, Entry(x, "AttributeError"))])
             ELSE [pc |-> "posting", buf |-> p.rest, flushed |-> f.flushed,
                   failed |-> f.failed, log |-> f.log, item |-> x]

\* the flush record of a call entered with buffering flag b, after Drain gave
\* d; posted_open: the request was posted at a moment at which call_async
\* would have rejected the call
Flushing(b, d) ==
    [pc |-> d.pc, original_buffer_state |-> b, flushed |-> d.flushed,
     failed |-> d.failed, item |-> d.item, log |-> d.log,
     posted_open |-> /\ d.pc = "posting"
                     /\ breaker_enabled
                     /\ IsRejected(circuit_breaker, now)]

\* a new flush_buffer coroutine takes the first free slot
FreeFlushSlot(t) ==
    /\ flush[t].pc = "idle"
    /\ \A u \in Tasks : u < t => flush[u].pc # "idle"

\* MonitorXClient.flush_buffer up to its first suspension point
flush_buffer(t) ==
    /\ FreeFlushSlot(t)
    /\ IF metric_buffer = <<>>
       THEN /\ flush' = [flush EXCEPT ![t] =
                            [NoFlush EXCEPT !.pc = "done",
                                            !.original_buffer_state = buffer_enabled]]
            /\ UNCHANGED <<metric_buffer, buffer_enabled>>
       ELSE LET d == Drain(metric_buffer, [flushed |-> 0, failed |-> 0, log |-> <<>>])
            IN  /\ flush' = [flush EXCEPT ![t] = Flushing(buffer_enabled, d)]
                /\ metric_buffer' = d.buf
                /\ buffer_enabled' = IF d.pc = "done" THEN buffer_enabled ELSE FALSE
    /\ UNCHANGED <<now, config, circuit_breaker, task, ncalls, ev, reported, streak,
                   nenqueued, batch>>

\* the request posted by flush t is answered: the request function returns
\* True or False, flush_buffer counts the item flushed and goes on draining
FlushPostCompletes(t, http) ==
    /\ flush[t].pc = "posting"
    /\ LET r == request_result(http)
           f == [flushed |-> flush[t].flushed + 1, failed |-> flush[t].failed,
                 log |-> Append(flush[t].log,
                                Entry(flush[t].item,
                                      IF r = "True" THEN "sent" ELSE "http_error"))]
           d == Drain(metric_buffer, f)
       IN  /\ flush' = [flush EXCEPT ![t] = Flushing(flush[t].original_buffer_state, d)]
           /\ metric_buffer' = d.buf
           /\ buffer_enabled' = IF d.pc = "done" THEN flush[t].original_buffer_state
                                 ELSE buffer_enabled
    /\ UNCHANGED <<now, config, circuit_breaker, task, ncalls, ev, reported, streak,
                   nenqueued, batch>>

\* flush t is cancelled while it awaits its request: asyncio.CancelledError
\* is no Exception, so it passes the except clause and the finally clause runs
FlushCancelled(t) ==
    /\ flush[t].pc = "posting"
    /\ flush' = [flush EXCEPT ![t].pc = "raised"]
    /\ buffer_enabled' = flush[t].original_buffer_state
    /\ UNCHANGED <<now, config, circuit_breaker, metric_buffer, task, ncalls, ev,
                   reported, streak, nenqueued, batch>>

\* the caller of flush t takes the result; the coroutine is gone
FlushReturn(t) ==
    /\ flush[t].pc \in {"done", "raised"}
    /\ flush' = [flush EXCEPT ![t] = NoFlush]
    /\ UNCHANGED <<now, config, circuit_breaker, metric_buffer, buffer_enabled, task,
                   ncalls, ev, reported, streak, nenqueued, batch>>

\* the client with its offline buffer: producers, the buffering switch and
\* flush_buffer (batches are submitted while buffering is enabled)
NextFlush ==
    \/ enable_buffering
    \/ disable_buffering
    \/ \E t \in Tasks, m \in Metrics : collect_inference_metric(t, m)
    \/ \E t \in Tasks : collect_drift_metric(t)
    \/ \E ms \in Batches(Metrics) : buffer_enabled /\ collect_inference_metrics_batch(ms)
    \/ \E t \in Tasks, http \in {"2xx", "error"} : RequestCompletes(t, http)
    \/ \E t \in Tasks : OperationRaises(t)
    \/ \E t \in Tasks : WakeUp(t)
    \/ \E t \in Tasks : Return(t)
    \/ BatchReturn
    \/ \E t \in Tasks : flush_buffer(t)
    \/ \E t \in Tasks, http \in {"2xx", "error"} : FlushPostCompletes(t, http)
    \/ \E t \in Tasks : FlushCancelled(t)
    \/ \E t \in Tasks : FlushReturn(t)
    \/ Tick

\* a client with a breaker that opens at the first failure and recovers
\* after a second, and with one or two attempts per submission
InitFlush ==
    /\ Init
    /\ failure_threshold = 1
    /\ recovery_timeout = 1
    /\ max_retries \in {1, 2}

SpecFlush == InitFlush /\ [][NextFlush]_vars

\* a metric with resource usage
UsageMetric == [request_id |-> FALSE, resource_usage |-> TRUE]

\* flush_buffer with producers that submit while buffering is enabled: the
\* buffer is filled by collect_inference_metric and by batches, the switch
\* is operated at any time, flush_buffer drains
NextDrain ==
    \/ enable_buffering
    \/ disable_buffering
    \/ \E t \in Tasks, m \in {PlainMetric, UsageMetric} :
           buffer_enabled /\ collect_inference_metric(t, m)
    \/ \E ms \in Batches({PlainMetric}) :
           buffer_enabled /\ collect_inference_metrics_batch(ms)
    \/ \E t \in Tasks : Return(t)
    \/ BatchReturn
    \/ \E t \in Tasks : flush_buffer(t)
    \/ \E t \in Tasks, http \in {"2xx", "error"} : FlushPostCompletes(t, http)
    \/ \E t \in Tasks : FlushCancelled(t)
    \/ \E t \in Tasks : FlushReturn(t)

\* a client whose buffer has the largest capacity considered
InitDrain ==
    /\ Init
    /\ failure_threshold = 1
    /\ recovery_timeout = 1
    /\ max_retries = 1
    /\ breaker_enabled
    /\ buffer_size = MaxBuffer

SpecDrain == InitDrain /\ [][NextDrain]_vars

\* every request a flush has posted is answered in the end
SpecDrainFair ==
    /\ SpecDrain
    /\ \A t \in Tasks : WF_vars(\E http \in {"2xx", "error"} : FlushPostCompletes(t, http))

\* the producers and the buffering switch, without flush_buffer: the buffer
\* only ever sees appends (batches are submitted while buffering is enabled)
NextEnqueue ==
    \/ enable_buffering
    \/ disable_buffering
    \/ \E t \in Tasks : collect_inference_metric(t, PlainMetric)
    \/ \E t \in Tasks : collect_drift_metric(t)
    \/ \E ms \in Batches({PlainMetric}) :
           buffer_enabled /\ collect_inference_metrics_batch(ms)
    \/ \E t \in Tasks, http \in {"2xx", "error"} : RequestCompletes(t, http)
    \/ \E t \in Tasks : OperationRaises(t)
    \/ \E t \in Tasks : WakeUp(t)
    \/ \E t \in Tasks : Return(t)
    \/ BatchReturn
    \/ Tick

\* a client without a breaker, with one or two attempts per submission
InitEnqueue ==
    /\ Init
    /\ failure_threshold = 1
    /\ recovery_timeout = 1
    /\ max_retries \in {1, 2}
    /\ ~breaker_enabled

SpecEnqueue == InitEnqueue /\ [][NextEnqueue]_vars

\* ----------------------------------------------------------- rate limiter

\* RateLimiter.__init__: self.cleanup_interval = 300
cleanup_interval == 300

\* the entries with ts > start
InWindow(entries, start) == SelectSeq(entries, LAMBDA e : e.ts > start)

\* sum(count for _, count in entries)
RECURSIVE total_requests(_)
total_requests(entries) ==
    IF entries = <<>> THEN 0 ELSE Head(entries).count + total_requests(Tail(entries))

\* a cleanup that empties every list
_cleanup_old_entries_all(reqs, t) ==
    IF t - last_cleanup < cleanup_interval
    THEN reqs
    ELSE [c \in Clients |-> <<>>]

\* RateLimiter._cleanup_old_entries at time t: every cleanup_interval seconds
\* drop the entries that are not newer than the window (a client without
\* entries is the same as a client with an empty list: defaultdict(list))
_cleanup_old_entries(reqs, t) ==
    IF t - last_cleanup < cleanup_interval
    THEN reqs
    ELSE [c \in Clients |-> InWindow(reqs[c], t - window_seconds)]

\* a rejection that leaves a record of the rejected request
AfterRejection_recorded(reqs, c, t) ==
    [reqs EXCEPT ![c] = Append(@, [ts |-> t, count |-> 1])]

\* is_allowed, the rejecting branch: return False, info
AfterRejection(reqs, c, t) == reqs

\* is_allowed, the admitting branch: record the request, keep recent entries
AfterAdmission(reqs, c, t) ==
    [reqs EXCEPT ![c] = InWindow(Append(@, [ts |-> t, count |-> 1]), t - window_seconds)]

\* RateLimiter.is_allowed(client_id) at time now
is_allowed(c) ==
    /\ nrequests < MaxRequests
    /\ nrequests' = nrequests + 1
    /\ LET cleaned == _cleanup_old_entries(requests, now)
           window_start == now - window_seconds
           current_requests == InWindow(cleaned[c], window_start)
           allowed == ~(total_requests(current_requests) >= requests_per_window)
       IN  /\ requests' = IF allowed THEN AfterAdmission(cleaned, c, now)
                          ELSE AfterRejection(cleaned, c, now)
           /\ answers' = [answers EXCEPT ![c] = Append(@, [at |-> now, allowed |-> allowed])]
           /\ decision' = [client |-> c, allowed |-> allowed, at |-> now]
    /\ last_cleanup' = IF now - last_cleanup < cleanup_interval THEN last_cleanup ELSE now
    /\ UNCHANGED <<now, sdk, requests_per_window, window_seconds, bucket, collector,
                   alerting>>

\* time passes at the server: a second, or a whole cleanup interval (the
\* clock is followed for MaxTime seconds from the start and for MaxTime
\* seconds from the first cleanup interval)
Elapse(d) ==
    /\ now + d <= cleanup_interval + MaxTime
    /\ (now + d) % cleanup_interval <= MaxTime
    /\ now' = now + d
    /\ UNCHANGED <<sdk, limiter, services>>

NextLimiter ==
    \/ \E c \in Clients : is_allowed(c) /\ UNCHANGED middleware
    \/ \E d \in {1, cleanup_interval} : Elapse(d)

\* a rate limiter with limit L >= 1 and window W >= 1 in front of the server
InitLimiter ==
    /\ \E L \in 1..MaxLimit, W \in 1..MaxWindow : NewLimiter(L, W)
    /\ IdleServices
    /\ now = 0
    /\ failure_threshold = 1
    /\ recovery_timeout = 1
    /\ max_retries = 1
    /\ retry_backoff = 1
    /\ breaker_enabled = TRUE
    /\ circuit_breaker = NewBreaker
    /\ buffer_size = 1
    /\ metric_buffer = <<>>
    /\ buffer_enabled = FALSE
    /\ task = [t \in Slots |-> IdleTask]
    /\ ncalls = 0
    /\ ev = NoEvent
    /\ reported = {}
    /\ streak = [len |-> 0, base |-> 0, start |-> "closed"]
    /\ nenqueued = 0
    /\ flush = [t \in Tasks |-> NoFlush]
    /\ batch = NoBatch

SpecLimiter == InitLimiter /\ [][NextLimiter]_vars

\* the SDK client at rest (the receiver side is followed alone)
QuietClient ==
    /\ now = 0
    /\ failure_threshold = 1
    /\ recovery_timeout = 1
    /\ max_retries = 1
    /\ retry_backoff = 1
    /\ breaker_enabled = TRUE
    /\ circuit_breaker = NewBreaker
    /\ buffer_size = 1
    /\ metric_buffer = <<>>
    /\ buffer_enabled = FALSE
    /\ task = [t \in Slots |-> IdleTask]
    /\ ncalls = 0
    /\ ev = NoEvent
    /\ reported = {}
    /\ streak = [len |-> 0, base |-> 0, start |-> "closed"]
    /\ nenqueued = 0
    /\ flush = [t \in Tasks |-> NoFlush]
    /\ batch = NoBatch

\* ------------------------------------------------- rate-limit middleware

\* RateLimitMiddleware.__init__: self.excluded_paths
excluded_paths == {"/docs", "/redoc", "/openapi.json", "/", "/api/v1/health"}

\* the paths requested
Paths == {"/api/v1/metrics/inference", "/api/v1/health"}

\* is_allowed: the info it returns at time t, from the entries reqs of the client
\* (reset is int(window_start + window_seconds) with window_start = t - window_seconds)
info(entries, t) ==
    LET window_start == t - window_seconds
        total == total_requests(InWindow(entries, window_start))
    IN  [limit |-> requests_per_window,
         remaining |-> IF requests_per_window - total > 0
                       THEN requests_per_window - total ELSE 0,
         reset |-> window_start + window_seconds]

\* RateLimitMiddleware.dispatch for a request of client c to path: a disabled
\* middleware and an excluded path pass the request on; otherwise the limiter
\* decides, and a rejection is answered 429 with Retry-After
\* = info["reset"] - int(time.time())
dispatch(c, path) ==
    IF ~enabled \/ path \in excluded_paths
    THEN /\ response' = [client |-> c, path |-> path, status |-> 200, retry_after |-> 0,
                         reset |-> 0, at |-> now]
         /\ UNCHANGED <<now, sdk, limiter, enabled, bucket, collector, alerting>>
    ELSE /\ is_allowed(c)
         /\ LET i == info(_cleanup_old_entries(requests, now)[c], now)
            IN  response' = [client |-> c, path |-> path,
                             status |-> IF decision'.allowed THEN 200 ELSE 429,
                             retry_after |-> IF decision'.allowed THEN 0 ELSE i.reset - now,
                             reset |-> i.reset, at |-> now]
         /\ UNCHANGED enabled

NextMiddleware ==
    \/ \E c \in Clients, path \in Paths : dispatch(c, path)
    \/ \E d \in {1, cleanup_interval} : Elapse(d)

\* the middleware, enabled or not, around a limiter with limit L >= 1 and
\* window W >= 1
InitMiddleware ==
    /\ QuietClient
    /\ \E L \in 1..MaxLimit, W \in 1..MaxWindow : NewLimiter(L, W)
    /\ \E en \in BOOLEAN : NewMiddleware(en)
    /\ NewBucket(1, 1)
    /\ NewCollector
    /\ NewAlerting(1, [ch \in Channels |-> TRUE])

SpecMiddleware == InitMiddleware /\ [][NextMiddleware]_vars

\* the X-API-Key values requests carry: the first 16 characters (prefix) and
\* what follows them (rest); NoKey for a request without the header, or
\* with an empty one
ApiKeys == [prefix : 1..(NClients - 1), rest : 1..2]
NoKey == [prefix |-> 0, rest |-> 0]

\* the network origins of requests (the first X-Forwarded-For address, or
\* request.client.host)
Origins == {1}

\* the requests that reach the middleware
HttpRequests == [api_key : ApiKeys \cup {NoKey}, origin : Origins]

\* RateLimitMiddleware._get_client_id: f"api_key:{api_key[:16]}" if the
\* header is there, f"ip:{client_ip}" otherwise
_get_client_id(request) ==
    IF request.api_key # NoKey
    THEN <<"api_key", request.api_key.prefix>>
    ELSE <<"ip", request.origin>>

\* the entry of RateLimiter.requests that a client id string selects
ClientOf(client_id) ==
    IF client_id[1] = "api_key" THEN client_id[2] ELSE NClients - 1 + client_id[2]

\* RateLimitMiddleware.dispatch for a request
handle(request, path) == dispatch(ClientOf(_get_client_id(request)), path)

\* requests with and without tokens at an enabled middleware
NextIdentity ==
    \/ \E request \in HttpRequests, path \in Paths : handle(request, path)
    \/ \E d \in {1, cleanup_interval} : Elapse(d)

InitIdentity == InitMiddleware /\ enabled

SpecIdentity == InitIdentity /\ [][NextIdentity]_vars

\* windows of a second, and windows as long as the cleanup interval or a
\* second longer
PruneWindows == {1, cleanup_interval, cleanup_interval + 1}

\* a rate limiter whose window can reach back beyond a cleanup
InitPrune ==
    /\ QuietClient
    /\ \E L \in 1..MaxLimit, W \in PruneWindows : NewLimiter(L, W)
    /\ IdleServices

SpecPrune == InitPrune /\ [][NextLimiter]_vars

\* ----------------------------------------------------------- token bucket

\* the smaller of two numbers
Min(a, b) == IF a < b THEN a ELSE b

\* a refill that is not capped at the capacity
Refill_uncapped(tokens, elapsed) == tokens + elapsed * rate

\* min(self.capacity, tokens + (elapsed * self.rate)), in 1/Resolution tokens
Refill(tokens, elapsed) == Min(capacity * Resolution, tokens + elapsed * rate)

\* TokenBucketRateLimiter.is_allowed(client_id) at time now
TokenBucket_is_allowed(c) ==
    /\ Cardinality({ci \in Clients \X (1..MaxRequests) :
                        ci[2] <= Len(bucket_answers[ci[1]])}) < MaxRequests
    /\ IF ~buckets[c].known
       THEN /\ buckets' = [buckets EXCEPT ![c] =
                              [known |-> TRUE, tokens |-> (capacity - 1) * Resolution,
                               last_update |-> now]]
            /\ bucket_answers' = [bucket_answers EXCEPT ![c] =
                                     Append(@, [at |-> now, allowed |-> TRUE])]
       ELSE LET elapsed == now - buckets[c].last_update
                tokens == Refill(buckets[c].tokens, elapsed)
            IN  IF tokens >= Resolution
                THEN /\ buckets' = [buckets EXCEPT ![c] =
                                       [known |-> TRUE, tokens |-> tokens - Resolution,
                                        last_update |-> now]]
                     /\ bucket_answers' = [bucket_answers EXCEPT ![c] =
                                              Append(@, [at |-> now, allowed |-> TRUE])]
                ELSE /\ buckets' = [buckets EXCEPT ![c] =
                                       [known |-> TRUE, tokens |-> tokens,
                                        last_update |-> now]]
                     /\ bucket_answers' = [bucket_answers EXCEPT ![c] =
                                              Append(@, [at |-> now, allowed |-> FALSE])]
    /\ UNCHANGED <<now, sdk, limiter, middleware, rate, capacity, collector, alerting>>

NextBucket ==
    \/ \E c \in Clients : TokenBucket_is_allowed(c)
    \/ Elapse(1)

\* a token bucket with a rate of 1/Resolution .. MaxRate/Resolution tokens a
\* second and a capacity of 0 .. MaxCapacity tokens
InitBucket ==
    /\ QuietClient
    /\ NewLimiter(1, 1)
    /\ NewMiddleware(FALSE)
    /\ \E R \in 1..MaxRate, C \in 0..MaxCapacity : NewBucket(R, C)
    /\ NewCollector
    /\ NewAlerting(1, [ch \in Channels |-> TRUE])

SpecBucket == InitBucket /\ [][NextBucket]_vars

\* ------------------------------------------------------ metrics collector

\* ratio >= num/den for ratio = value / threshold with threshold > 0
AtLeast(value, threshold, num, den) == value * den >= num * threshold

\* the severity with the top cutoff exclusive (ratio > 2.0)
_calculate_severity_gt(value, threshold) ==
    IF threshold = 0 THEN "ZeroDivisionError"
    ELSE IF ~AtLeast(threshold * 2, value, 1, 1) THEN "critical"
    ELSE IF AtLeast(value, threshold, 3, 2) THEN "high"
    ELSE IF AtLeast(value, threshold, 6, 5) THEN "medium"
    ELSE "low"

\* MetricsCollector._calculate_severity(value, threshold), for threshold >= 0:
\* ratio = value / threshold raises ZeroDivisionError for threshold 0
_calculate_severity(value, threshold) ==
    IF threshold = 0 THEN "ZeroDivisionError"
    ELSE IF AtLeast(value, threshold, 2, 1) THEN "critical"
    ELSE IF AtLeast(value, threshold, 3, 2) THEN "high"
    ELSE IF AtLeast(value, threshold, 6, 5) THEN "medium"
    ELSE "low"

\* a direct call of _calculate_severity(v, T)
calculate(v, T) ==
    /\ verdict' = [last |-> [value |-> v, threshold |-> T,
                             severity |-> _calculate_severity(v, T)],
                   previous |-> verdict.last]
    /\ UNCHANGED <<now, sdk, limiter, middleware, bucket, alerting, model_configs,
                   metrics, drift_metrics, alerts, collected, alert_status,
                   resolved_call>>

NextSeverity == \E v \in 0..MaxValue, T \in 0..MaxDivisor : calculate(v, T)

InitSeverity ==
    /\ QuietClient
    /\ NewLimiter(1, 1)
    /\ IdleServices

SpecSeverity == InitSeverity /\ [][NextSeverity]_vars

\* an optional float: None or a value
Observations == {None} \cup (0..MaxObserved)

\* InferenceMetric.resource_usage is None
NoUsage == [present |-> FALSE, gpu_memory |-> None, cpu_usage |-> None]

\* the inference metrics the collector receives
InferenceMetrics ==
    [model_id : Entities, latency : 0..MaxObserved, error_rate : Observations,
     resource_usage : {NoUsage} \cup [present : {TRUE}, gpu_memory : Observations,
                                      cpu_usage : Observations]]

\* inference metrics that carry a latency only
LatencyMetrics == {m \in InferenceMetrics : m.error_rate = None /\ m.resource_usage = NoUsage}

\* the drift metrics the collector receives
DriftMetrics ==
    [model_id : Entities, drift_type : {"data", "concept"},
     severity : {"low", "medium", "high", "critical"}, confidence : {0, 1}]

\* the configured maxima of an entity
ThresholdSets == [DimSet -> 0..MaxConfigured]

\* Python truth of an optional float: None and 0.0 are false
Truthy(x) == x # None /\ x # 0

\* the value of a dimension in a metric, None if absent
Observed(metric, d) ==
    CASE d = "latency" -> metric.latency
      [] d = "error_rate" -> metric.error_rate
      [] d = "gpu_memory" -> metric.resource_usage.gpu_memory
      [] d = "cpu_usage" -> metric.resource_usage.cpu_usage

\* _check_thresholds: the test that guards the alert of dimension d
Exceeds(metric, thresholds, d) ==
    CASE d = "latency" -> metric.latency > thresholds[d]
      [] d = "error_rate" -> Truthy(metric.error_rate) /\ metric.error_rate > thresholds[d]
      [] d = "gpu_memory" ->
            /\ metric.resource_usage.present
            /\ Truthy(metric.resource_usage.gpu_memory)
            /\ metric.resource_usage.gpu_memory > thresholds[d]
      [] d = "cpu_usage" ->
            /\ metric.resource_usage.present
            /\ Truthy(metric.resource_usage.cpu_usage)
            /\ metric.resource_usage.cpu_usage > thresholds[d]

\* _check_thresholds: the alert_type of the alert of dimension d
AlertType(d) == IF d \in {"gpu_memory", "cpu_usage"} THEN "resource_usage" ELSE d

\* MetricsCollector._check_thresholds(metric): the alerts it generates, or
\* the exception that leaves it (raised while the list of alerts is built,
\* before any alert is generated); message is the dimension the message names
_check_thresholds(metric) ==
    LET model_config == model_configs[metric.model_id]
        thresholds == model_config.thresholds
        breached == SelectSeq(Dims, LAMBDA d : Exceeds(metric, thresholds, d))
        severity(d) == _calculate_severity(Observed(metric, d), thresholds[d])
    IN  IF ~model_config.registered THEN [raised |-> FALSE, alerts |-> <<>>]
        ELSE IF \E i \in 1..Len(breached) : severity(breached[i]) = "ZeroDivisionError"
        THEN [raised |-> TRUE, alerts |-> <<>>]
        ELSE [raised |-> FALSE,
              alerts |-> [i \in 1..Len(breached) |->
                            [model_id |-> metric.model_id,
                             alert_type |-> AlertType(breached[i]),
                             severity |-> severity(breached[i]),
                             message |-> breached[i]]]]

\* a callback loop that stops at the first callback that raises
CallbacksRun_abort(raising) ==
    {cb \in 1..NCallbacks : \A r \in raising : cb <= r}

\* for callback in self.metric_callbacks: try: callback(metric) except Exception:
\* the callbacks that are called when those in raising raise
CallbacksRun(raising) == 1..NCallbacks

\* drift of any severity raises an alert
IsAlarming_always(severity) == TRUE

\* collect_drift_metric: metric.severity in ["high", "critical"]
IsAlarming(severity) == severity \in {"high", "critical"}

\* Alert(...) as _check_thresholds and collect_drift_metric construct it, n
\* times after stored alerts have been made: id is a fresh uuid4 (here the
\* serial number of the alert), resolved False, resolved_at None
NewAlerts(stored, n) ==
    [i \in 1..n |-> [id |-> stored + i, resolved |-> FALSE, resolved_at |-> None]]

\* MetricsCollector.register_model(config) for entity e with thresholds th
register_model(e, th) ==
    /\ model_configs' = [model_configs EXCEPT ![e] = [registered |-> TRUE, thresholds |-> th]]
    /\ UNCHANGED <<now, sdk, limiter, middleware, bucket, alerting, metrics,
                   drift_metrics, alerts, collected, verdict, alert_status,
                   resolved_call>>

\* MetricsCollector.collect_inference_metric(metric); the metric callbacks in
\* raising raise.  The call has no suspension point: it runs as one step.
MetricsCollector_collect_inference_metric(metric, raising) ==
    /\ Len(metrics) + Len(drift_metrics) < MaxCollects
    /\ LET serial == Len(metrics) + Len(drift_metrics) + 1
           checked == _check_thresholds(metric)
       IN  /\ metrics' = Append(metrics, serial)
           /\ alerts' = alerts \o checked.alerts
           /\ alert_status' = alert_status \o NewAlerts(Len(alerts), Len(checked.alerts))
           /\ collected' = [kind |-> "inference", serial |-> serial,
                            model_id |-> metric.model_id, metric |-> metric,
                            raised |-> checked.raised, alerts |-> checked.alerts,
                            metric_callbacks |-> CallbacksRun(raising),
                            callback_errors |-> raising \cap CallbacksRun(raising),
                            alert_callbacks |-> Len(checked.alerts) * NCallbacks]
    /\ UNCHANGED <<now, sdk, limiter, middleware, bucket, alerting, model_configs,
                   drift_metrics, verdict, resolved_call>>

\* MetricsCollector.collect_drift_metric(metric)
MetricsCollector_collect_drift_metric(metric) ==
    /\ Len(metrics) + Len(drift_metrics) < MaxCollects
    /\ LET serial == Len(metrics) + Len(drift_metrics) + 1
           generated == IF IsAlarming(metric.severity)
                        THEN <<[model_id |-> metric.model_id, alert_type |-> "drift",
                                severity |-> metric.severity, message |-> "drift"]>>
                        ELSE <<>>
       IN  /\ drift_metrics' = Append(drift_metrics, serial)
           /\ alerts' = alerts \o generated
           /\ alert_status' = alert_status \o NewAlerts(Len(alerts), Len(generated))
           /\ collected' = [kind |-> "drift", serial |-> serial,
                            model_id |-> metric.model_id, metric |-> metric,
                            raised |-> FALSE, alerts |-> generated,
                            metric_callbacks |-> {}, callback_errors |-> {},
                            alert_callbacks |-> Len(generated) * NCallbacks]
    /\ UNCHANGED <<now, sdk, limiter, middleware, bucket, alerting, model_configs,
                   metrics, verdict, resolved_call>>

\* the collector with every kind of metric
NextCollector ==
    \/ \E e \in Registrable, th \in ThresholdSets : register_model(e, th)
    \/ \E m \in InferenceMetrics, raising \in {{}, {1}} :
           MetricsCollector_collect_inference_metric(m, raising)
    \/ \E m \in DriftMetrics : MetricsCollector_collect_drift_metric(m)

InitCollector == InitSeverity

SpecCollector == InitCollector /\ [][NextCollector]_vars

\* configurations that differ in the latency maximum only
LatencyThresholdSets ==
    {th \in ThresholdSets : \A d \in DimSet \ {"latency"} : th[d] = MaxConfigured}

\* the collector with drift metrics of every entity, inference metrics of
\* every shape from the entities that are never registered and latency-only
\* metrics from the others; the first metric callback raises or none does
NextIntake ==
    \/ \E e \in Registrable, th \in LatencyThresholdSets : register_model(e, th)
    \/ \E m \in InferenceMetrics, raising \in {{}, {1}} :
           /\ m.model_id \in Registrable => m \in LatencyMetrics
           /\ MetricsCollector_collect_inference_metric(m, raising)
    \/ \E m \in DriftMetrics : MetricsCollector_collect_drift_metric(m)

SpecIntake == InitCollector /\ [][NextIntake]_vars

\* a resolution that flips the flag instead of setting it
Resolved_toggle(status, t) == [status EXCEPT !.resolved = ~@, !.resolved_at = t]

\* resolve_alert: alert.resolved = True; alert.resolved_at = datetime.now()
Resolved(status, t) == [status EXCEPT !.resolved = TRUE, !.resolved_at = t]

\* MetricsCollector.resolve_alert(alert_id): the first stored alert with
\* that id is resolved.  The coroutine has no suspension point.
resolve_alert(alert_id) ==
    /\ resolved_call.calls < MaxResolves
    /\ LET hits == {i \in 1..Len(alert_status) : alert_status[i].id = alert_id}
           first == CHOOSE i \in hits : \A j \in hits : i <= j
       IN  IF hits # {}
           THEN /\ alert_status' = [alert_status EXCEPT ![first] = Resolved(@, now)]
                /\ resolved_call' = [alert_id |-> alert_id, answer |-> "True",
                                     at |-> now, calls |-> resolved_call.calls + 1]
           ELSE /\ alert_status' = alert_status
                /\ resolved_call' = [alert_id |-> alert_id, answer |-> "False",
                                     at |-> now, calls |-> resolved_call.calls + 1]
    /\ UNCHANGED <<now, sdk, limiter, middleware, bucket, alerting, model_configs,
                   metrics, drift_metrics, alerts, collected, verdict>>

\* the ids handed to resolve_alert: those of alerts that can be stored, and
\* one more that never is
AlertIds == 1..(2 * MaxCollects + 1)

\* inference metrics of the registrable entities that carry a latency and
\* an error rate
PlainMetrics ==
    {m \in InferenceMetrics : m.model_id \in Registrable /\ m.resource_usage = NoUsage}

\* data drift reported with full confidence
DataDrift == {m \in DriftMetrics : m.drift_type = "data" /\ m.confidence = 1}

\* the configuration with MaxConfigured as the maximum of every dimension
UniformThresholds == [d \in DimSet |-> MaxConfigured]

\* the collector storing alerts (up to two for one metric) and resolving
\* them as time passes
NextResolve ==
    \/ \E e \in Registrable : register_model(e, UniformThresholds)
    \/ \E m \in PlainMetrics : MetricsCollector_collect_inference_metric(m, {})
    \/ \E m \in DataDrift : MetricsCollector_collect_drift_metric(m)
    \/ \E alert_id \in AlertIds : resolve_alert(alert_id)
    \/ Elapse(1)

SpecResolve == InitCollector /\ [][NextResolve]_vars

\* ------------------------------------------------------- alerting service

\* a handler loop without try/except: the first exception leaves the loop
HandlersRun_unguarded(raising) ==
    [invoked |-> {h \in Handlers : \A r \in raising : h <= r},
     raised |-> raising # {}]

\* for handler in self.custom_handlers: try: handler(alert) except Exception:
\* the handlers called when those in raising raise, and whether an
\* exception leaves the loop
HandlersRun(raising) == [invoked |-> Handlers, raised |-> FALSE]

\* a suppressed alert that is entered in the history
AfterSuppressed_recorded(history, key, t) == [history EXCEPT ![key] = t]

\* send_alert, the rate-limited branch: return
AfterSuppressed(history, key, t) == history

\* a cool-down test that lets an alert of the very instant of the last one pass
IsRateLimited_later(last_sent, t) ==
    last_sent # None /\ 0 < t - last_sent /\ t - last_sent < rate_limit_window

\* send_alert: if last_sent and (datetime.now() - last_sent) < self.rate_limit_window
\* (a datetime is always true, so "last_sent and" tests for None)
IsRateLimited(last_sent, t) == last_sent # None /\ t - last_sent < rate_limit_window

\* a dispatch that leaves the history update for after the deliveries
AfterDispatch_deferred(history, key, t) == history

\* send_alert: self.alert_history[rate_limit_key] = datetime.now(), before
\* the deliveries are created
AfterDispatch(history, key, t) == [history EXCEPT ![key] = t]

\* AlertingService.send_alert(alert) up to its suspension point (the gather
\* over the deliveries); the custom handlers in raising raise
send_alert(alert, raising) ==
    /\ Len(sends) < MaxSends
    /\ LET rate_limit_key_ == rate_limit_key(alert)
           last_sent == alert_history[rate_limit_key_]
           run == HandlersRun(raising)
           started == [ch \in Channels |->
                         IF channels[ch] /\ ~run.raised THEN "pending" ELSE "none"]
       IN  IF IsRateLimited(last_sent, now)
           THEN /\ alert_history' = AfterSuppressed(alert_history, rate_limit_key_, now)
                /\ sends' = Append(sends,
                       [alert |-> alert, at |-> now, suppressed |-> TRUE,
                        handled |-> {}, handler_errors |-> {}, raised |-> FALSE,
                        channel |-> [ch \in Channels |-> "none"], pc |-> "done"])
           ELSE /\ alert_history' = AfterDispatch(alert_history, rate_limit_key_, now)
                /\ sends' = Append(sends,
                       [alert |-> alert, at |-> now, suppressed |-> FALSE,
                        handled |-> run.invoked,
                        handler_errors |-> raising \cap run.invoked,
                        raised |-> run.raised,
                        channel |-> started,
                        pc |-> IF \E ch \in Channels : started[ch] = "pending"
                               THEN "gathering" ELSE "done"])
    /\ UNCHANGED <<now, sdk, limiter, middleware, bucket, collector, rate_limit_window,
                   channels, tested>>

\* _send_through_channel of send i for channel ch ends: the delivery was made
\* or raised, and the exception was logged inside _send_through_channel
ChannelCompletes(i, ch, outcome) ==
    /\ i \in 1..Len(sends)
    /\ sends[i].pc = "gathering"
    /\ sends[i].channel[ch] = "pending"
    /\ sends' = [sends EXCEPT ![i].channel[ch] = outcome]
    /\ UNCHANGED <<now, sdk, limiter, middleware, bucket, collector, rate_limit_window,
                   alert_history, channels, tested>>

\* the gather of send i is over: send_alert returns
SendReturns(i) ==
    /\ i \in 1..Len(sends)
    /\ sends[i].pc = "gathering"
    /\ \A ch \in Channels : sends[i].channel[ch] # "pending"
    /\ sends' = [sends EXCEPT ![i].pc = "done"]
    /\ UNCHANGED <<now, sdk, limiter, middleware, bucket, collector, rate_limit_window,
                   alert_history, channels, tested>>

\* AlertingService.cleanup_rate_limit_history(older_than_hours), in the time
\* unit of the model
cleanup_rate_limit_history(older_than) ==
    /\ LET cutoff_time == now - older_than
       IN  alert_history' = [k \in Keys |->
                               IF alert_history[k] # None /\ alert_history[k] < cutoff_time
                               THEN None ELSE alert_history[k]]
    /\ UNCHANGED <<now, sdk, limiter, middleware, bucket, collector, rate_limit_window,
                   channels, sends, tested>>

\* the dedup of send_alert: alerts at any time, among them while earlier
\* ones are still being delivered, and the purge of the history; every
\* delivery succeeds and no handler raises
NextDedup ==
    \/ \E alert \in AlertsToSend : send_alert(alert, {})
    \/ \E i \in 1..MaxSends, ch \in Channels : ChannelCompletes(i, ch, "delivered")
    \/ \E i \in 1..MaxSends : SendReturns(i)
    \/ \E older_than \in 0..MaxRetention : cleanup_rate_limit_history(older_than)
    \/ Elapse(1)

\* an alerting service with a cool-down of 1..MaxCooldown, its first channel
\* enabled, and its custom handlers
InitDedup ==
    /\ QuietClient
    /\ NewLimiter(1, 1)
    /\ NewMiddleware(FALSE)
    /\ NewBucket(1, 1)
    /\ NewCollector
    /\ \E W \in 1..MaxCooldown : NewAlerting(W, [ch \in Channels |-> ch = 1])

SpecDedup == InitDedup /\ [][NextDedup]_vars

\* send_alert calls that overlap while time passes: a delivery succeeds or
\* raises, however long it takes
NextOverlap ==
    \/ \E alert \in AlertsToSend : send_alert(alert, {})
    \/ \E i \in 1..MaxSends, ch \in Channels, outcome \in {"delivered", "failed"} :
           ChannelCompletes(i, ch, outcome)
    \/ \E i \in 1..MaxSends : SendReturns(i)
    \/ Elapse(1)

SpecOverlap == InitDedup /\ [][NextOverlap]_vars

\* the fan-out of send_alert: the first handler raises or none does, every
\* delivery succeeds or raises
NextDispatch ==
    \/ \E alert \in AlertsToSend, raising \in {{}, {1}} : send_alert(alert, raising)
    \/ \E i \in 1..MaxSends, ch \in Channels, outcome \in {"delivered", "failed"} :
           ChannelCompletes(i, ch, outcome)
    \/ \E i \in 1..MaxSends : SendReturns(i)

\* an alerting service with channels enabled or not, and its custom handlers
InitDispatch ==
    /\ QuietClient
    /\ NewLimiter(1, 1)
    /\ NewMiddleware(FALSE)
    /\ NewBucket(1, 1)
    /\ NewCollector
    /\ \E en \in [Channels -> BOOLEAN] : NewAlerting(1, en)

SpecDispatch == InitDispatch /\ [][NextDispatch]_vars

\* _send_through_channel as seen by its caller when the delivery inside it
\* ended with outcome ("delivered", or "failed" for an exception of the
\* sender): the except branch logs the exception, so the call returns
\* either way
_send_through_channel(outcome) == "returned"

\* test_channels, the body of the loop for an enabled channel whose awaited
\* _send_through_channel ended with through: True, or False from the except
\* branch
TestResult(through) == IF through = "raised" THEN "False" ELSE "True"

\* test_channels, the loop from the channel after k up to the next await:
\* the disabled channels get False, the first enabled one is awaited
RECURSIVE TestLoop(_, _)
TestLoop(k, results) ==
    IF k >= NChannels
    THEN [pc |-> "done", channel |-> 0, results |-> results]
    ELSE IF ~channels[k + 1]
    THEN TestLoop(k + 1, [results EXCEPT ![k + 1] = "False"])
    ELSE [pc |-> "awaiting", channel |-> k + 1, results |-> results]

\* AlertingService.test_channels up to its first suspension point
test_channels ==
    /\ tested.pc = "idle"
    /\ LET loop == TestLoop(0, NoTest.results)
       IN  tested' = [NoTest EXCEPT !.pc = loop.pc, !.channel = loop.channel,
                                    !.results = loop.results]
    /\ UNCHANGED <<now, sdk, limiter, middleware, bucket, collector, rate_limit_window,
                   alert_history, channels, sends>>

\* the delivery of the test alert through the awaited channel ends with
\* outcome; test_channels runs on to its next suspension point or its end
TestDeliveryEnds(outcome) ==
    /\ tested.pc = "awaiting"
    /\ LET ch == tested.channel
           results == [tested.results EXCEPT
                          ![ch] = TestResult(_send_through_channel(outcome))]
           loop == TestLoop(ch, results)
       IN  tested' = [tested EXCEPT !.pc = loop.pc, !.channel = loop.channel,
                                    !.results = loop.results,
                                    !.delivery[ch] = outcome]
    /\ UNCHANGED <<now, sdk, limiter, middleware, bucket, collector, rate_limit_window,
                   alert_history, channels, sends>>

\* the caller of test_channels takes the dictionary
TestReturns ==
    /\ tested.pc = "done"
    /\ tested' = NoTest
    /\ UNCHANGED <<now, sdk, limiter, middleware, bucket, collector, rate_limit_window,
                   alert_history, channels, sends>>

\* test_channels next to send_alert: every delivery succeeds or raises
NextProbe ==
    \/ test_channels
    \/ \E outcome \in {"delivered", "failed"} : TestDeliveryEnds(outcome)
    \/ TestReturns
    \/ \E alert \in AlertsToSend : send_alert(alert, {})
    \/ \E i \in 1..MaxSends, ch \in Channels, outcome \in {"delivered", "failed"} :
           ChannelCompletes(i, ch, outcome)
    \/ \E i \in 1..MaxSends : SendReturns(i)

SpecProbe == InitDispatch /\ [][NextProbe]_vars

\* ------------------------------------------------------------ properties

Fails == {"raise", "rejected"}

\* how often the retry sequence of a coroutine invoked the operation
Invocations(tk) ==
    Cardinality({i \in 1..Len(tk.atts) : tk.atts[i] # "rejected"})
        + (IF tk.pc = "calling" THEN 1 ELSE 0)

Rejections(tk) == Cardinality({i \in 1..Len(tk.atts) : tk.atts[i] = "rejected"})

LastAtt(tk) == tk.atts[Len(tk.atts)]

\* steps: coroutine t enters call_async; CircuitBreaker.call runs; the
\* operation awaited by t returns / raises
Entered(t) ==
    /\ task[t].pc \in {"idle", "sleeping"}
    /\ \/ task'[t].pc = "calling"
       \/ Len(task'[t].atts) > Len(task[t].atts)
SyncCall == ncalls' = ncalls + 1 /\ task' = task
CallEntered == SyncCall \/ \E t \in Tasks : Entered(t)
Completed(t) == task[t].pc = "calling" /\ task'[t].pc # "calling"
Returned(t) == Completed(t) /\ LastAtt(task'[t]) \in {"True", "False"}
Raised(t) == Completed(t) /\ LastAtt(task'[t]) = "raise"

RECURSIVE SeqSum(_)
SeqSum(q) == IF q = <<>> THEN 0 ELSE Head(q) + SeqSum(Tail(q))

\* C1 as stated: starting from ANY closed breaker, the breaker is still
\* closed after fewer than failure_threshold consecutive failing calls and
\* open when the failure_threshold-th is recorded.
C1_Original ==
    (breaker_enabled /\ streak.start = "closed") =>
        /\ streak.len < failure_threshold => circuit_breaker.state = "closed"
        /\ (streak.len = failure_threshold /\ ev.exit = "raised")
               => circuit_breaker.state = "open"

\* C1 (amended): starting from a closed breaker whose failure_count is 0, the
\* breaker is still closed after fewer than failure_threshold consecutive
\* failing calls and is open as soon as the failure_threshold-th is recorded.
C1_OpensAtThreshold ==
    (breaker_enabled /\ streak.start = "closed" /\ streak.base = 0) =>
        /\ streak.len < failure_threshold => circuit_breaker.state = "closed"
        /\ (streak.len = failure_threshold /\ ev.exit = "raised")
               => circuit_breaker.state = "open"

C1_Witness ==
    /\ breaker_enabled /\ failure_threshold = 2
    /\ streak = [len |-> 2, base |-> 0, start |-> "closed"]
    /\ ev.exit = "raised"
    /\ circuit_breaker.state = "open"

\* C2: while the breaker is open and less than recovery_timeout has elapsed
\* since last_failure_time, every call entering call / call_async is rejected
\* without invoking the wrapped function and leaves the breaker unchanged; the
\* breaker leaves the open state only to half_open, on a call entered when
\* now - last_failure_time >= recovery_timeout.
C2_OpenRejects ==
    [][(breaker_enabled /\ circuit_breaker.state = "open") =>
        /\ (CallEntered /\ now - circuit_breaker.last_failure_time < recovery_timeout)
              => /\ ev'.entry = "rejected"
                 /\ ev'.exit = "none"
                 /\ circuit_breaker' = circuit_breaker
                 /\ \A t \in Tasks : Entered(t) => task'[t].pc # "calling"
        /\ circuit_breaker'.state # "open"
              => /\ CallEntered
                 /\ ev'.entry = "admitted"
                 /\ ev'.mid = "half_open"
                 /\ now - circuit_breaker.last_failure_time >= recovery_timeout
      ]_vars

C2_Witness ==
    /\ breaker_enabled
    /\ circuit_breaker.state = "open"
    /\ ev.entry = "rejected"
    /\ \E t \in Tasks : task[t].atts # <<>> /\ LastAtt(task[t]) = "rejected"

\* C3: a call that ends while the breaker is half_open decides the state: if
\* the wrapped function returned, the breaker is closed with failure_count 0;
\* if it raised, the breaker is open again with last_failure_time re-stamped,
\* so calls are rejected until a full recovery_timeout has elapsed again.
C3_HalfOpenDecides ==
    [][breaker_enabled =>
        LET after == circuit_breaker'
            closed == after.state = "closed" /\ after.failure_count = 0
            reopened == /\ after.state = "open"
                        /\ after.last_failure_time = now
                        /\ \A d \in 0..(recovery_timeout - 1) : IsRejected(after, now + d)
        IN  /\ \A t \in Tasks :
                 circuit_breaker.state = "half_open" =>
                     /\ Returned(t) => closed
                     /\ Raised(t) => reopened
            /\ (SyncCall /\ ev'.mid = "half_open") =>
                     /\ ev'.exit = "returned" => closed
                     /\ ev'.exit = "raised" => reopened
      ]_vars

C3_Witness ==
    /\ breaker_enabled
    /\ ev.mid = "half_open" /\ ev.exit = "returned"
    /\ circuit_breaker = NewBreaker
    /\ \E t \in Tasks : task[t].pc = "done" /\ task[t].atts = <<"raise", "True">>

\* the backoff sleeps the retry sequence of a coroutine has to have requested
\* so far: one after each failed attempt that is not attempt max_retries - 1
NSleeps(tk) ==
    Cardinality({i \in 1..Len(tk.atts) : tk.atts[i] \in Fails /\ i - 1 < max_retries - 1})

\* C4: _retry_with_backoff invokes the operation at most max_retries times
\* and stops at the first attempt that returns; after the failed attempt with
\* 0-based index k that is not the last one it sleeps retry_backoff * 2^k and
\* it never sleeps after the last attempt; two failures and a success with
\* max_retries = 3 are 3 attempts and a total delay of retry_backoff * (1 + 2).
C4_RetryBackoff ==
    \A t \in Tasks :
        LET tk == task[t]
            n == Len(tk.atts)
        IN  /\ n <= max_retries
            /\ Invocations(tk) <= max_retries
            /\ \A i \in 1..n : tk.atts[i] \in {"True", "False"} => (i = n /\ tk.pc = "done")
            /\ tk.slept = [k \in 1..NSleeps(tk) |-> retry_backoff * 2^(k - 1)]
            /\ tk.pc = "sleeping" => (n < max_retries /\ LastAtt(tk) \in Fails)
            /\ (max_retries = 3 /\ tk.atts = <<"raise", "raise", "True">>)
                  => (Invocations(tk) = 3 /\ SeqSum(tk.slept) = retry_backoff * (1 + 2))

C4_Witness ==
    \E t \in Tasks :
        /\ max_retries = 3
        /\ task[t].pc = "done"
        /\ task[t].atts = <<"raise", "raise", "True">>
        /\ task[t].slept = <<1, 2>>

\* the retry sequence of a coroutine ended with every attempt failed
Exhaustion(tk) == tk.pc = "done" /\ tk.surfaced # "none" /\ max_retries >= 1

LastFailure(tk) == IF LastAtt(tk) = "rejected" THEN "CircuitOpen" ELSE "OpError"

C6_Original == \A t \in Tasks : ~task[t].slept_open

\* C7 as stated: an attempt whose HTTP request failed is a failure for the
\* retry driver and the breaker: the submission ends only after a success or
\* after max_retries attempts, and the breaker has counted the failure.
C7_Original ==
    /\ \A t \in Tasks :
          (task[t].pc = "done" /\ task[t].atts # <<>> /\ LastAtt(task[t]) = "False")
              => Len(task[t].atts) = max_retries
    /\ (breaker_enabled /\ ev.exit = "returned" /\ ev.value = "False")
          => circuit_breaker.failure_count >= 1

\* C8 as stated: the outcome reported for a breaker-open rejection differs
\* from the outcome reported for a transient transport failure.
C8_Original ==
    \A p, q \in reported :
        (p.cause = "breaker_open" /\ q.cause = "transport") => p.result # q.result

\* C9 as stated: a metric call entered while buffering is enabled appends its
\* metric to the buffer, makes no network request and reports success
\* (stated for a client that attempts requests at all, max_retries >= 1).
C9_Original ==
    \A t \in Tasks :
        (task[t].pc # "idle" /\ task[t].entry_buffering /\ max_retries >= 1) =>
            /\ task[t].pc = "done"
            /\ task[t].enqueued
            /\ task[t].atts = <<>>
            /\ task[t].result = "True"

\* C10 as stated: a submission that finally fails while buffering is enabled
\* appends its metric to the buffer and reports the metric as accepted.
C10_Original ==
    \A t \in Tasks :
        (task[t].pc = "done" /\ task[t].final_buffering /\ Invocations(task[t]) >= 1) =>
            /\ task[t].enqueued
            /\ task[t].result = "True"

\* the times at which client c was admitted, in order
AdmittedAt(c) ==
    LET adm == SelectSeq(answers[c], LAMBDA a : a.allowed)
    IN  [i \in 1..Len(adm) |-> adm[i].at]

\* C19 as stated: no time span of length window_seconds holds more than
\* requests_per_window admitted requests of one client: the first and the
\* last of any requests_per_window + 1 admitted requests of a client are
\* more than window_seconds apart.
C19_Original ==
    \A c \in Clients :
        LET adm == AdmittedAt(c)
        IN  \A i \in 1..Len(adm) :
                i + requests_per_window <= Len(adm)
                    => adm[i + requests_per_window] - adm[i] > window_seconds

\* the step is an answer of is_allowed to client c
Answered(c) == nrequests' = nrequests + 1 /\ decision'.client = c

\* C20: a request of a client all of whose admitted requests are older than
\* the window is admitted, whatever was rejected in the meantime; a rejected
\* request is not recorded: it leaves the admitted requests and every
\* client's entries inside the window as they were.
C20_ReadmittedAfterWindow ==
    [][\A c \in Clients :
          Answered(c) =>
              /\ (\A i \in 1..Len(AdmittedAt(c)) : now - AdmittedAt(c)[i] > window_seconds)
                     => decision'.allowed
              /\ ~decision'.allowed =>
                     \A d \in Clients :
                         InWindow(requests'[d], now - window_seconds)
                             = InWindow(requests[d], now - window_seconds)
      ]_vars

C20_Witness ==
    \E c \in Clients :
        /\ Len(answers[c]) = 4
        /\ answers[c][1].allowed
        /\ ~answers[c][2].allowed
        /\ ~answers[c][3].allowed
        /\ answers[c][4].allowed
        /\ answers[c][3].at > answers[c][1].at
        /\ answers[c][4].at = answers[c][1].at + window_seconds + 1

\* the serial numbers of the items in buf, in buffer order
Ids(buf) == [i \in 1..Len(buf) |-> buf[i].id]

\* C11: after any sequence of enqueues the buffer holds at most buffer_size
\* items and they are exactly the most recently enqueued ones in their
\* enqueue order: with n appends so far and k = min(buffer_size, n), the
\* buffer holds the appends n-k+1 .. n in this order.
C11_MostRecentRetained ==
    LET n == nenqueued
        k == IF n < buffer_size THEN n ELSE buffer_size
    IN  /\ Len(metric_buffer) <= buffer_size
        /\ Ids(metric_buffer) = [i \in 1..k |-> n - k + i]

C11_Witness ==
    /\ buffer_size = 2
    /\ nenqueued = 3
    /\ Ids(metric_buffer) = <<2, 3>>
    /\ metric_buffer[1].via = "batch"
    /\ metric_buffer[2].via = "single"

\* the serial numbers of the items flush t has taken from the buffer so far,
\* in the order in which it started their delivery
Taken(t) ==
    LET done == [i \in 1..Len(flush[t].log) |-> flush[t].log[i].id]
    IN  IF flush[t].pc = "posting" THEN Append(done, flush[t].item.id) ELSE done

\* the delivery outcomes in the log of flush t
Outcomes(t) == {flush[t].log[i].outcome : i \in 1..Len(flush[t].log)}

HowMany(t, outs) ==
    Cardinality({i \in 1..Len(flush[t].log) : flush[t].log[i].outcome \in outs})

\* C12: flush_buffer delivers in FIFO order, one item at a time: the items a
\* flush has taken so far are in the order in which they entered the buffer,
\* all but the one being delivered are finished, and everything still in the
\* buffer entered it after the item being delivered.
C12_FlushFIFO ==
    \A t \in Tasks :
        /\ \A i, j \in 1..Len(Taken(t)) : i < j => Taken(t)[i] < Taken(t)[j]
        /\ Len(flush[t].log) = Len(Taken(t)) - (IF flush[t].pc = "posting" THEN 1 ELSE 0)
        /\ flush[t].pc = "posting" =>
               \A k \in 1..Len(metric_buffer) : metric_buffer[k].id > flush[t].item.id

C12_Witness ==
    \E t \in Tasks :
        /\ flush[t].pc = "posting"
        /\ Len(flush[t].log) = 1
        /\ flush[t].log[1].outcome \in {"sent", "http_error"}
        /\ flush[t].item.id > flush[t].log[1].id

\* C13 as stated: buffer_enabled is false for the whole drain of a
\* flush_buffer call, and a call that has returned (normally or through an
\* exception) has left buffer_enabled at the value it had at the call.
C13_Original ==
    [][\A t \in Tasks :
          /\ flush'[t].pc = "posting" => ~buffer_enabled'
          /\ (flush[t].pc = "posting" /\ flush'[t].pc \in {"done", "raised"})
                 => buffer_enabled' = flush[t].original_buffer_state
          /\ (flush[t].pc = "idle" /\ flush'[t].pc = "done")
                 => buffer_enabled' = buffer_enabled
      ]_vars

\* C14 as stated: in the result of flush_buffer, flushed is the number of
\* drained items that were delivered to the server, failed the number of
\* drained items that were not, and the two add up to the items drained.
C14_Original ==
    \A t \in Tasks :
        flush[t].pc = "done" =>
            /\ flush[t].flushed = HowMany(t, {"sent"})
            /\ flush[t].failed = HowMany(t, {"http_error", "AttributeError", "TypeError"})
            /\ flush[t].flushed + flush[t].failed = Len(flush[t].log)

\* C15 as stated: a flushed item goes through the retry driver and the
\* breaker: no request of a flush is posted while the breaker rejects calls,
\* and a delivery that failed was attempted max_retries times.
C15_Original ==
    \A t \in Tasks :
        /\ ~flush[t].posted_open
        /\ \A i \in 1..Len(flush[t].log) :
               flush[t].log[i].outcome = "http_error"
                   => flush[t].log[i].attempts = max_retries

\* C16: flush_buffer terminates when every request it posts is answered; at
\* the moment it returns the buffer is empty; and an item it has taken from
\* the buffer is never in the buffer again, whether its delivery failed or
\* not and whatever the buffering flag was before the flush.
C16_FlushDrains ==
    /\ [](\A t \in Tasks : \A i \in 1..Len(Taken(t)) : \A k \in 1..Len(metric_buffer) :
              metric_buffer[k].id # Taken(t)[i])
    /\ [][\A t \in Tasks :
              (flush[t].pc # "done" /\ flush'[t].pc = "done") => metric_buffer' = <<>>
         ]_vars
    /\ \A t \in Tasks :
          (flush[t].pc = "posting") ~> (flush[t].pc \in {"done", "raised"})

C16_Witness ==
    \E t \in Tasks :
        /\ flush[t].pc = "done"
        /\ flush[t].original_buffer_state
        /\ buffer_enabled
        /\ Len(flush[t].log) = 2
        /\ "http_error" \in Outcomes(t)
        /\ metric_buffer = <<>>

\* C17 as stated: a flush during which every network request succeeds sends
\* every item it takes from the buffer that the client had accepted while
\* buffering was enabled (by collect_inference_metric or by
\* collect_inference_metrics_batch).
C17_Original ==
    \A t \in Tasks :
        "http_error" \notin Outcomes(t) =>
            \A i \in 1..Len(flush[t].log) :
                flush[t].log[i].via \in {"single", "batch"}
                    => flush[t].log[i].outcome = "sent"

\* the per-item submissions of the running batch that reported r
Reporting(r) == {i \in 1..batch.started : task[Child(i)].result = r}

\* C18: collect_inference_metrics_batch returns only after every per-item
\* submission it started has completed, and none outlives the call; its
\* result satisfies success + failed = number of input metrics, with the
\* submissions that returned true counted as successes and the others as
\* failures; an empty input returns {success: 0, failed: 0} and starts nothing.
C18_BatchJoined ==
    /\ batch.pc = "done" =>
          /\ \A i \in 1..batch.started : task[Child(i)].pc = "done"
          /\ batch.success + batch.failed = batch.n
          /\ batch.started > 0 =>
                 /\ batch.started = batch.n
                 /\ batch.success = Cardinality(Reporting("True"))
                 /\ batch.failed = batch.n - Cardinality(Reporting("True"))
          /\ batch.n = 0 => (batch.success = 0 /\ batch.failed = 0 /\ batch.started = 0)
    /\ \A t \in BatchSlots :
          task[t].pc # "idle" => (batch.pc # "idle" /\ t - NTasks <= batch.started)

C18_Witness ==
    /\ batch.pc = "done"
    /\ batch.n = 2
    /\ batch.started = 2
    /\ batch.success = 1
    /\ batch.failed = 1
    /\ task[Child(1)].result = "False"
    /\ task[Child(2)].result = "True"

\* client c would be admitted by the sliding window at time t if it sent
\* nothing before
WouldAdmit(c, t) ==
    total_requests(InWindow(requests[c], t - window_seconds)) < requests_per_window

\* the first time from t on at which client c would be admitted
WindowEnd(c, t) ==
    CHOOSE u \in t..(t + window_seconds) :
        /\ WouldAdmit(c, u)
        /\ \A w \in t..(u - 1) : ~WouldAdmit(c, w)

\* C21 as stated: a 429 of the middleware carries a Retry-After after which
\* the same client, sending nothing else, is admitted, and a reset epoch that
\* is the time at which the limiting window ends.
C21_Original ==
    response.status = 429 =>
        /\ WouldAdmit(response.client, response.at + response.retry_after)
        /\ response.reset = WindowEnd(response.client, response.at)

\* the length of the burst client c started with: its requests at the time
\* of its first one
Burst(c) ==
    LET a == bucket_answers[c]
    IN  Cardinality({i \in 1..Len(a) : \A j \in 1..i : a[j].at = a[1].at})

\* C22 as stated: of the back-to-back requests a client starts with, the
\* first capacity ones are admitted and the next one is rejected, and the
\* request that follows the burst after at least 1/rate seconds is admitted.
C22_Original ==
    \A c \in Clients :
        LET a == bucket_answers[c]
            k == Burst(c)
        IN  /\ \A i \in 1..k : i <= capacity => a[i].allowed
            /\ k > capacity => ~a[capacity + 1].allowed
            /\ (k > capacity /\ Len(a) > k
                    /\ (a[k + 1].at - a[1].at) * rate >= Resolution)
                   => a[k + 1].allowed

\* C23: with capacity >= 1 every stored token count is within [0, capacity];
\* a request is admitted iff the refilled count (old tokens + elapsed * rate,
\* capped at capacity; a full bucket for a new client) is at least one token;
\* an admitted request takes exactly one token from the refilled count and a
\* rejected one takes none.
C23_TokenBucket ==
    /\ [](capacity >= 1 =>
             \A c \in Clients :
                 buckets[c].known =>
                     (0 <= buckets[c].tokens /\ buckets[c].tokens <= capacity * Resolution))
    /\ [][capacity >= 1 =>
             \A c \in Clients :
                 bucket_answers'[c] # bucket_answers[c] =>
                     LET grown == buckets[c].tokens + (now - buckets[c].last_update) * rate
                         refilled == IF ~buckets[c].known THEN capacity * Resolution
                                     ELSE IF grown > capacity * Resolution
                                          THEN capacity * Resolution ELSE grown
                         answer == bucket_answers'[c][Len(bucket_answers'[c])]
                     IN  /\ answer.allowed <=> refilled >= Resolution
                         /\ answer.allowed => buckets'[c].tokens = refilled - Resolution
                         /\ ~answer.allowed => buckets'[c].tokens = refilled
        ]_vars

C23_Witness ==
    \E c \in Clients :
        /\ capacity = 2
        /\ Len(bucket_answers[c]) = 4
        /\ bucket_answers[c][1].allowed
        /\ bucket_answers[c][2].allowed
        /\ ~bucket_answers[c][3].allowed
        /\ bucket_answers[c][4].allowed
        /\ buckets[c].tokens = 1

\* low < medium < high < critical
Rank(sv) == CASE sv = "low" -> 1 [] sv = "medium" -> 2 [] sv = "high" -> 3
              [] sv = "critical" -> 4 [] OTHER -> 0

\* C24: for a threshold T > 0 the severity of (v, T) is critical iff
\* v/T >= 2.0, high iff 1.5 <= v/T < 2.0, medium iff 1.2 <= v/T < 1.5 and low
\* otherwise, and of two calls the one with the larger ratio does not get the
\* lower severity.
C24_Severity ==
    LET a == verdict.last
        b == verdict.previous
    IN  /\ a.threshold > 0 =>
              /\ a.severity = "critical" <=> a.value >= 2 * a.threshold
              /\ a.severity = "high" <=>
                     (2 * a.value >= 3 * a.threshold /\ a.value < 2 * a.threshold)
              /\ a.severity = "medium" <=>
                     (5 * a.value >= 6 * a.threshold /\ 2 * a.value < 3 * a.threshold)
              /\ a.severity = "low" <=> 5 * a.value < 6 * a.threshold
        /\ (a.threshold > 0 /\ b.threshold > 0
                /\ b.value * a.threshold <= a.value * b.threshold)
               => Rank(b.severity) <= Rank(a.severity)

C24_Witness ==
    /\ verdict.previous = [value |-> 6, threshold |-> 5, severity |-> "medium"]
    /\ verdict.last = [value |-> 10, threshold |-> 5, severity |-> "critical"]

\* the step is a collect_* call of the given kind
Collects(kind) == collected'.serial # collected.serial /\ collected'.kind = kind

\* C25 as stated: for a metric of a registered entity collect_inference_metric
\* emits exactly one alert for each of latency, error_rate, gpu_memory and
\* cpu_usage whose observed value is greater than its configured maximum and
\* none for the other dimensions: k breached dimensions give k alerts.
C25_Original ==
    [][(Collects("inference") /\ model_configs[collected'.model_id].registered) =>
          LET metric == collected'.metric
              thresholds == model_configs[metric.model_id].thresholds
              over(d) == Observed(metric, d) # None /\ Observed(metric, d) > thresholds[d]
              emitted == collected'.alerts
          IN  /\ \A d \in DimSet :
                     Cardinality({i \in 1..Len(emitted) : emitted[i].message = d})
                         = IF over(d) THEN 1 ELSE 0
              /\ Len(emitted) = Cardinality({d \in DimSet : over(d)})
              /\ alerts' = alerts \o emitted
      ]_vars

\* C26: collect_drift_metric generates exactly one alert of kind drift with
\* the metric's own severity for a drift metric of severity high or critical
\* and none for low or medium, whatever the confidence and whether or not the
\* entity is registered.
C26_DriftAlerts ==
    [][Collects("drift") =>
          LET metric == collected'.metric
              expected == IF metric.severity \in {"high", "critical"}
                          THEN <<[model_id |-> metric.model_id, alert_type |-> "drift",
                                  severity |-> metric.severity, message |-> "drift"]>>
                          ELSE <<>>
          IN  /\ collected'.alerts = expected
              /\ alerts' = alerts \o expected
              /\ ~collected'.raised
      ]_vars

C26_Witness ==
    /\ collected.kind = "drift"
    /\ collected.model_id = "m2"
    /\ collected.metric.severity = "high"
    /\ collected.metric.confidence = 0
    /\ Len(alerts) = 1
    /\ alerts[1].alert_type = "drift"
    /\ alerts[1].severity = "high"

\* C27: an inference metric of an entity without a registered configuration
\* is skipped: collect_inference_metric raises nothing, emits no alert and
\* calls no alert callback, the metric is recorded and every metric callback
\* is called.
C27_UnregisteredSkip ==
    [][(Collects("inference") /\ ~model_configs[collected'.model_id].registered) =>
          /\ ~collected'.raised
          /\ collected'.alerts = <<>>
          /\ alerts' = alerts
          /\ collected'.alert_callbacks = 0
          /\ metrics' = Append(metrics, collected'.serial)
          /\ collected'.metric_callbacks = 1..NCallbacks
      ]_vars

C27_Witness ==
    /\ collected.kind = "inference"
    /\ collected.model_id = "m2"
    /\ collected.metric.latency = MaxObserved
    /\ collected.metric.resource_usage.present
    /\ collected.metric.resource_usage.gpu_memory = MaxObserved
    /\ collected.callback_errors = {1}
    /\ collected.metric_callbacks = 1..NCallbacks
    /\ metrics = <<collected.serial>>
    /\ alerts = <<>>
    /\ model_configs["m1"].registered

\* sends i and j carry the same dedup key (entity, kind, severity)
SameKey(i, j) == rate_limit_key(sends[i].alert) = rate_limit_key(sends[j].alert)

\* the dispatched sends with the key of send j that came before it
Prior(j) == {i \in 1..(j - 1) : SameKey(i, j) /\ ~sends[i].suppressed}

\* the largest element of a non-empty set of numbers
Last(S) == CHOOSE i \in S : \A k \in S : k <= i

\* C28 as stated: of the alerts of one key at most one is dispatched within
\* any cool-down window: two dispatched alerts of a key are at least
\* rate_limit_window apart, the first alert of a key is dispatched, and a
\* suppressed alert reaches no channel and no custom handler, ever.
C28_Original ==
    /\ \A j \in 1..Len(sends) :
           \A i \in 1..(j - 1) :
               (SameKey(i, j) /\ ~sends[i].suppressed /\ ~sends[j].suppressed)
                   => sends[j].at - sends[i].at >= rate_limit_window
    /\ \A j \in 1..Len(sends) :
           (\A i \in 1..(j - 1) : ~SameKey(i, j)) => ~sends[j].suppressed
    /\ \A j \in 1..Len(sends) :
           sends[j].suppressed =>
               /\ sends[j].handled = {}
               /\ \A ch \in Channels : sends[j].channel[ch] = "none"

\* C29: an alert sent at least rate_limit_window after the last dispatched
\* alert of its key is dispatched, however many alerts of the key were
\* suppressed in between; a suppressed alert leaves the send history as it was.
C29_Redispatch ==
    /\ [](\A j \in 1..Len(sends) :
             (Prior(j) # {} /\ sends[j].at - sends[Last(Prior(j))].at >= rate_limit_window)
                 => ~sends[j].suppressed)
    /\ [][(Len(sends') > Len(sends) /\ sends'[Len(sends')].suppressed)
              => alert_history' = alert_history]_vars

C29_Witness ==
    /\ Len(sends) = 3
    /\ SameKey(1, 2)
    /\ SameKey(1, 3)
    /\ ~sends[1].suppressed
    /\ sends[2].suppressed
    /\ sends[2].at > sends[1].at
    /\ ~sends[3].suppressed
    /\ sends[3].at = sends[1].at + rate_limit_window
    /\ alert_history[rate_limit_key(sends[3].alert)] = sends[3].at

\* C30: in a send_alert call that is not suppressed every custom handler is
\* called and a delivery is attempted on every enabled channel, whichever
\* handlers and deliveries raise; when the call returns every enabled channel
\* has had its attempt; send_alert raises nothing.
C30_Isolation ==
    \A i \in 1..Len(sends) :
        /\ ~sends[i].raised
        /\ ~sends[i].suppressed =>
               /\ sends[i].handled = Handlers
               /\ \A ch \in Channels : channels[ch] => sends[i].channel[ch] # "none"
               /\ sends[i].pc = "done" =>
                      \A ch \in Channels :
                          channels[ch] => sends[i].channel[ch] \in {"delivered", "failed"}

C30_Witness ==
    \E i \in 1..Len(sends) :
        /\ sends[i].pc = "done"
        /\ sends[i].handler_errors = {1}
        /\ sends[i].handled = Handlers
        /\ sends[i].channel[1] = "failed"
        /\ sends[i].channel[2] = "delivered"

\* steps at the shared breaker: CircuitBreaker.call runs around a function
\* that raises / returns; some admitted call (synchronous, or the awaited
\* operation of a coroutine) ends by raising / by returning
SyncEnded(exit) ==
    /\ ncalls' = ncalls + 1
    /\ task' = task
    /\ batch' = batch
    /\ ev'.entry = "admitted"
    /\ ev'.exit = exit
CallFailed == SyncEnded("raised") \/ \E t \in Slots : Raised(t)
CallSucceeded == SyncEnded("returned") \/ \E t \in Slots : Returned(t)

\* the breaker state in which the call ending in this step is handled
StateAtEnd == IF SyncEnded("raised") \/ SyncEnded("returned") THEN ev'.mid
              ELSE circuit_breaker.state

\* every failing call adds exactly one to failure_count, and nothing else
\* changes it but the reset after a success in half_open
CountsEveryFailure ==
    [][breaker_enabled =>
        LET before == circuit_breaker.failure_count
            after == circuit_breaker'.failure_count
        IN  /\ CallFailed => after = before + 1
            /\ ~CallFailed =>
                   \/ after = before
                   \/ after = 0 /\ CallSucceeded /\ StateAtEnd = "half_open"
      ]_vars

\* C33 as stated: with several callers inside call_async on one breaker, no
\* failure is lost (failure_count is the number of failed calls completed
\* since the last reset) and the state is open whenever that number has
\* reached failure_threshold.
C33_Original ==
    /\ CountsEveryFailure
    /\ [](breaker_enabled /\ circuit_breaker.failure_count >= failure_threshold
            => circuit_breaker.state = "open")

\* C33, amended: no failure is lost (every failed call completed since the
\* last reset is counted once, whatever other callers are in flight); the
\* failure that brings the count to failure_threshold leaves the breaker
\* open, and while the count is at or above failure_threshold the breaker is
\* open or half_open, never closed.
C33_NoLostFailure ==
    /\ CountsEveryFailure
    /\ [][(breaker_enabled /\ CallFailed
            /\ circuit_breaker'.failure_count >= failure_threshold)
           => circuit_breaker'.state = "open"]_vars
    /\ [](breaker_enabled /\ circuit_breaker.failure_count >= failure_threshold
            => circuit_breaker.state \in {"open", "half_open"})

\* two submissions of one batch are inside call_async together; the second
\* one has failed and opened the breaker while the first is still awaited
C33_Witness ==
    /\ batch.pc = "gathering"
    /\ task[Child(1)].pc = "calling"
    /\ task[Child(2)].pc = "done"
    /\ task[Child(2)].atts = <<"raise">>
    /\ failure_threshold = 2
    /\ circuit_breaker.failure_count = 2
    /\ circuit_breaker.state = "open"

\* C36: a successful call while the breaker is closed leaves failure_count
\* and last_failure_time unchanged; only a success in half_open resets them.
\* So failures accumulate across intervening successes, and the failure
\* that brings failure_count to failure_threshold opens a closed breaker.
C36_ClosedSuccessKeepsCount ==
    [][breaker_enabled =>
        LET before == circuit_breaker
            after == circuit_breaker'
        IN  /\ (CallSucceeded /\ StateAtEnd = "closed") =>
                   /\ after.failure_count = before.failure_count
                   /\ after.last_failure_time = before.last_failure_time
                   /\ after.state = "closed"
            /\ (CallSucceeded /\ (after.failure_count # before.failure_count
                                   \/ after.last_failure_time # before.last_failure_time)) =>
                   /\ StateAtEnd = "half_open"
                   /\ after.failure_count = 0
                   /\ after.last_failure_time = None
            /\ (CallFailed /\ StateAtEnd = "closed") =>
                   /\ after.failure_count = before.failure_count + 1
                   /\ after.state = "open" <=> before.failure_count + 1 >= failure_threshold
      ]_vars

\* failure, success, failure with failure_threshold = 2: the second failure
\* opened the breaker although a success lies between the two
C36_Witness ==
    /\ breaker_enabled
    /\ failure_threshold = 2
    /\ streak = [len |-> 1, base |-> 1, start |-> "closed"]
    /\ ev.exit = "raised"
    /\ circuit_breaker.state = "open"
    /\ circuit_breaker.failure_count = 2

\* C37: in every reachable state of a CircuitBreaker with
\* failure_threshold >= 1 the state is closed, open or half_open; open and
\* half_open imply failure_count >= failure_threshold and a set
\* last_failure_time; closed implies failure_count < failure_threshold.
C37_BreakerInvariant ==
    (breaker_enabled /\ failure_threshold >= 1) =>
        /\ circuit_breaker.state \in {"closed", "open", "half_open"}
        /\ circuit_breaker.state \in {"open", "half_open"} =>
               /\ circuit_breaker.failure_count >= failure_threshold
               /\ circuit_breaker.last_failure_time # None
        /\ circuit_breaker.state = "closed" =>
               circuit_breaker.failure_count < failure_threshold

\* a call was admitted after the recovery timeout and is in flight: the
\* breaker is half_open with the failures that opened it still counted
C37_Witness ==
    /\ breaker_enabled
    /\ failure_threshold = 2
    /\ circuit_breaker.state = "half_open"
    /\ circuit_breaker.failure_count >= 2
    /\ \E t \in Slots : task[t].pc = "calling"

\* C31 as stated: test_channels returns one boolean per configured channel:
\* False for a disabled channel, for which no delivery is attempted, and for
\* an enabled channel whose test delivery failed; True only for an enabled
\* channel whose test delivery succeeded.
C31_Original ==
    tested.pc = "done" =>
        \A ch \in Channels :
            /\ tested.results[ch] \in {"True", "False"}
            /\ ~channels[ch] => tested.results[ch] = "False" /\ tested.delivery[ch] = "none"
            /\ (channels[ch] /\ tested.delivery[ch] = "failed") => tested.results[ch] = "False"
            /\ tested.results[ch] = "True" => channels[ch] /\ tested.delivery[ch] = "delivered"

\* this step is a resolve_alert call
Resolves == resolved_call'.calls # resolved_call.calls

\* the stored alerts with the given id, by position
Stored(alert_id) == {i \in 1..Len(alert_status) : alert_status[i].id = alert_id}

\* C32: resolve_alert(id) on a stored alert sets resolved with a resolved_at
\* timestamp and returns True; on an unknown id it returns False and changes
\* no alert; no other operation changes a field of a stored alert, so a
\* resolved alert never becomes unresolved and no alert's severity changes
\* after its creation.
C32_ResolveOnly ==
    [][/\ Len(alerts') >= Len(alerts)
       /\ Len(alert_status') = Len(alerts')
       /\ \A i \in 1..Len(alerts) :
              /\ alerts'[i] = alerts[i]
              /\ alert_status'[i].id = alert_status[i].id
              /\ alert_status[i].resolved => alert_status'[i].resolved
              /\ alert_status'[i] # alert_status[i] =>
                     /\ Resolves
                     /\ alert_status[i].id = resolved_call'.alert_id
       /\ Resolves =>
              LET alert_id == resolved_call'.alert_id
              IN  IF Stored(alert_id) # {}
                  THEN /\ resolved_call'.answer = "True"
                       /\ \E i \in Stored(alert_id) :
                              /\ alert_status'[i].resolved
                              /\ alert_status'[i].resolved_at = now
                  ELSE /\ resolved_call'.answer = "False"
                       /\ alert_status' = alert_status
                       /\ alerts' = alerts
      ]_vars

\* one metric raised two alerts; the second was resolved at time 1, the
\* first is unresolved, and a later resolve_alert with an unknown id
\* answered False
C32_Witness ==
    /\ Len(alerts) = 2
    /\ alert_status[2].resolved /\ alert_status[2].resolved_at = 1
    /\ ~alert_status[1].resolved /\ alert_status[1].resolved_at = None
    /\ resolved_call.calls = 2
    /\ resolved_call.answer = "False"
    /\ now = 2

\* this step is a send_alert call, up to its suspension point or its return
NewSend == Len(sends') = Len(sends) + 1

\* send i has dispatched and is suspended in its gather
InFlight(i) == sends[i].pc = "gathering"

\* the call of this step has the dedup key of send i
SameKeyAsNew(i) ==
    rate_limit_key(sends[i].alert) = rate_limit_key(sends'[Len(sends')].alert)

\* the history check and the history update of a send_alert call happen in
\* one step, and no step of a suspended call touches the history
CheckAndUpdateTogether ==
    [][IF NewSend
       THEN LET new == sends'[Len(sends')]
                key == rate_limit_key(new.alert)
            IN  /\ new.suppressed => alert_history' = alert_history
                /\ ~new.suppressed => alert_history' = [alert_history EXCEPT ![key] = now]
       ELSE alert_history' = alert_history
      ]_vars

\* C34 as stated: when a send_alert call starts while another call for the
\* same dedup key is suspended in its deliveries, exactly one of the two
\* dispatches and the other is suppressed; the history check and update of
\* one call are never separated by a step of the other.
C34_Original ==
    /\ CheckAndUpdateTogether
    /\ [][NewSend =>
            \A i \in 1..Len(sends) :
                (InFlight(i) /\ SameKeyAsNew(i)) => sends'[Len(sends')].suppressed
         ]_vars

\* C34, amended: the history check and update of one call are never
\* separated by a step of another; so a send_alert call that starts less than
\* rate_limit_window after a call for the same dedup key that is still
\* suspended in its deliveries is suppressed, and exactly one of the two
\* dispatches.
C34_OneDispatch ==
    /\ CheckAndUpdateTogether
    /\ [][NewSend =>
            \A i \in 1..Len(sends) :
                (InFlight(i) /\ SameKeyAsNew(i) /\ now - sends[i].at < rate_limit_window)
                    => /\ ~sends[i].suppressed
                       /\ sends'[Len(sends')].suppressed
         ]_vars

\* the second call came one second into the deliveries of the first and
\* was suppressed; the first is still suspended
C34_Witness ==
    /\ Len(sends) = 2
    /\ SameKey(1, 2)
    /\ sends[1].pc = "gathering"
    /\ ~sends[1].suppressed
    /\ sends[2].suppressed
    /\ sends[2].at = sends[1].at + 1
    /\ rate_limit_window = 2

\* nothing has been delivered for send i
NothingDelivered(i) == \A ch \in Channels : sends[i].channel[ch] # "delivered"

\* C35: send_alert records the send-history timestamp of a non-suppressed
\* alert before any delivery is attempted; a failing delivery does not take
\* it back, so the key counts as sent even when every delivery fails, and
\* later alerts of the key inside the cool-down window are suppressed
\* although nothing was delivered.
C35_RecordedBeforeDelivery ==
    /\ [][(NewSend /\ ~sends'[Len(sends')].suppressed) =>
             LET new == sends'[Len(sends')]
             IN  /\ alert_history'[rate_limit_key(new.alert)] = now
                 /\ \A ch \in Channels :
                        new.channel[ch] = IF channels[ch] THEN "pending" ELSE "none"
         ]_vars
    /\ [][\A i \in 1..Len(sends) :
             (\E ch \in Channels : /\ sends[i].channel[ch] = "pending"
                                    /\ sends'[i].channel[ch] = "failed")
                 => alert_history' = alert_history
         ]_vars
    /\ [](\A j \in 1..Len(sends) :
             \A i \in 1..(j - 1) :
                 (SameKey(i, j) /\ ~sends[i].suppressed /\ NothingDelivered(i)
                    /\ sends[j].at - sends[i].at < rate_limit_window)
                     => sends[j].suppressed)

\* the only delivery of the first alert failed; the second alert of the key
\* came after the failure, inside the cool-down window, and was suppressed
C35_Witness ==
    /\ Len(sends) = 2
    /\ SameKey(1, 2)
    /\ ~sends[1].suppressed
    /\ sends[1].pc = "done"
    /\ sends[1].channel[1] = "failed"
    /\ NothingDelivered(1)
    /\ sends[2].suppressed
    /\ sends[2].at = sends[1].at + 1
    /\ alert_history[rate_limit_key(sends[2].alert)] = sends[1].at

\* the identity a request carries: its authentication token, or its
\* network origin when it has no token
Identity(request) ==
    IF request.api_key # NoKey THEN <<"token", request.api_key>>
    ELSE <<"origin", request.origin>>

\* whether the limiter with entries reqs would admit client c at time t
Admissible(reqs, c, t) ==
    total_requests(InWindow(reqs[c], t - window_seconds)) < requests_per_window

\* C38 as stated (sliding window): requests with different identities
\* (different tokens, or different origins when there is no token) are
\* limited independently: an is_allowed call for one identity changes
\* neither the observations in the window of another identity nor whether
\* its next request is admitted.
C38_Original ==
    [][nrequests' = nrequests + 1 =>
          \A a, b \in HttpRequests :
              (Identity(a) # Identity(b)
                 /\ ClientOf(_get_client_id(a)) = decision'.client)
                  => LET other == ClientOf(_get_client_id(b))
                     IN  /\ Admissible(requests', other, now)
                                = Admissible(requests, other, now)
                         /\ InWindow(requests'[other], now - window_seconds)
                                = InWindow(requests[other], now - window_seconds)
      ]_vars

\* the requests of client c admitted by the token bucket from its i-th to
\* its j-th request
AdmittedBetween(c, i, j) ==
    Cardinality({k \in i..j : bucket_answers[c][k].allowed})

\* C40 as stated: for every client of the token bucket with capacity C and
\* rate R, the number of requests admitted in any time interval of length t
\* is at most C + R * t.
C40_Original ==
    \A c \in Clients :
        \A i \in 1..Len(bucket_answers[c]) :
            \A j \in i..Len(bucket_answers[c]) :
                LET t == bucket_answers[c][j].at - bucket_answers[c][i].at
                IN  AdmittedBetween(c, i, j) * Resolution
                        <= capacity * Resolution + rate * t

\* the admitted requests of client c that a limiter which never prunes
\* would count at time t: those of the last window_seconds
EverAdmitted(c, t) ==
    Cardinality({k \in 1..Len(answers[c]) :
                    answers[c][k].allowed /\ answers[c][k].at > t - window_seconds})

\* C39: the periodic cleanup never changes an admission decision: every
\* is_allowed call answers, and reports as remaining, what a limiter that
\* keeps every admitted request would; the cleanup removes only
\* observations that are outside the window.
C39_CleanupTransparent ==
    [][nrequests' = nrequests + 1 =>
          LET c == decision'.client
              kept == EverAdmitted(c, now)
              shown == info(_cleanup_old_entries(requests, now)[c], now)
          IN  /\ decision'.allowed <=> kept < requests_per_window
              /\ shown.remaining = IF requests_per_window - kept > 0
                                      THEN requests_per_window - kept ELSE 0
              /\ \A d \in Clients :
                     InWindow(_cleanup_old_entries(requests, now)[d], now - window_seconds)
                         = InWindow(requests[d], now - window_seconds)
      ]_vars

\* the cleanup has run at the request of client 2 and has emptied the list
\* of client 1, whose admitted request is out of the window; client 2 was
\* rejected in that call because its own request from before the cleanup
\* is still inside the window
C39_Witness ==
    /\ last_cleanup = cleanup_interval + 1
    /\ window_seconds = cleanup_interval + 1
    /\ requests[1] = <<>>
    /\ \E k \in 1..Len(answers[1]) : answers[1][k].allowed
    /\ decision = [client |-> 2, allowed |-> FALSE, at |-> cleanup_interval + 1]
    /\ Len(answers[2]) = 2
    /\ answers[2][1].at < cleanup_interval
====
